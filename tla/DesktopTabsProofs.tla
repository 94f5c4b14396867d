------------------------- MODULE DesktopTabsProofs -------------------------
(***************************************************************************)
(* The desktop shell for any set of ids and addresses and any number of    *)
(* tabs: the engine shows what the session says, browsers are counted, and *)
(* no tab takes the window along.                                          *)
(***************************************************************************)
EXTENDS DesktopTabs, SessionLemmas, FiniteSetTheorems

\* The ids the program makes: "restored-n" is neither "tab-n" nor the first tab's, no two
\* numbers give the same one, and a number comes up again only when its old browser is
\* gone.
FreshIds ==
  /\ ~HastyReuse
  /\ DOMAIN RestoredId \subseteq Nat
  /\ \A n \in DOMAIN RestoredId :
       /\ RestoredId[n] # InitialId
       /\ \A m \in DOMAIN NumberedId : RestoredId[n] # NumberedId[m]
       /\ \A m \in DOMAIN RestoredId : RestoredId[n] = RestoredId[m] => n = m

BrowsersOf(e) == {t \in TabIds : HasBrowser(e, t)}

\* Browsers are finite in number, counted, and the loop ends after the last one.
Counted(e, w) ==
  /\ IsFiniteSet(BrowsersOf(e)) /\ e.live = Cardinality(BrowsersOf(e))
  /\ e.quit => w = "gone" /\ BrowsersOf(e) = {}

\* No surface has a name that a reopening has yet to give.
RestoredAreUnused(s) ==
  \A n \in DOMAIN RestoredId : n > s.restored => s.engine.phase[RestoredId[n]] = "absent"

Windows == {"starting", "open", "closing", "destroying", "gone"}

\* The inductive invariant.
ShellInv(s, w) ==
  /\ Consistent(s)
  /\ w # "gone" => CefHas(s.engine, Open(s), s.active)
  /\ s.engine.destroyed <=> w = "gone"
  /\ RestoredAreUnused(s)
  /\ w = "starting" => \A t \in TabIds : s.engine.phase[t] = "absent"
  /\ Counted(s.engine, w)
  /\ w \in Windows

DesktopInv ==
  /\ ShellInv(session, window)
  /\ asked \subseteq BrowsersOf(session.engine)
  /\ accepted \subseteq BrowsersOf(session.engine)

-----------------------------------------------------------------------------
\* A call of the shell: the engine follows, no browser comes or goes, and at most one
\* new tab appears, under a name no later reopening will give.
ShellMoves(s, d) ==
  /\ Follows(d) /\ SameBrowsers(s.engine, d.engine)
  /\ d.restored \in Nat /\ d.restored >= s.restored
  /\ \A n \in DOMAIN RestoredId :
       n > d.restored /\ RestoredId[n] \in Open(d) => RestoredId[n] \in Open(s)

LEMMA ShellMoveKeeps ==
  ASSUME FreshIds, NEW s, NEW w \in {"starting", "open", "closing"}, ShellInv(s, w), NEW d,
         ShellMoves(s, d), NEW v \in {"open", "closing"}
  PROVE  ShellInv(d, v) /\ BrowsersOf(d.engine) = BrowsersOf(s.engine)
<1>1. BrowsersOf(d.engine) = BrowsersOf(s.engine)
  BY DEF ShellMoves, SameBrowsers, BrowsersOf
<1>2. Counted(d.engine, v)
  BY <1>1 DEF ShellMoves, SameBrowsers, Counted, ShellInv
<1>3. Consistent(d) /\ CefHas(d.engine, Open(d), d.active)
  BY DEF ShellMoves, Follows, Consistent, CefHas
<1>4. ~d.engine.destroyed
  BY <1>3 DEF CefHas
<1>5. RestoredAreUnused(d)
  <2> SUFFICES ASSUME NEW n \in DOMAIN RestoredId, n > d.restored
               PROVE  d.engine.phase[RestoredId[n]] = "absent"
    BY DEF RestoredAreUnused
  <2> DEFINE t == RestoredId[n]
  <2>1. t \in TabIds /\ n \in Nat
    BY RestoredIdAssumption DEF FreshIds
  <2>2. s.restored \in Nat
    BY SessionFields DEF ShellInv, Consistent, SessionInvariant
  <2>3. s.engine.phase[t] = "absent"
    BY <2>1, <2>2 DEF ShellMoves, ShellInv, RestoredAreUnused
  <2>4. t \notin Open(s)
    BY <2>1, <2>3 DEF ShellInv, CefHas, Usable
  <2>5. t \notin Open(d)
    BY <2>4 DEF ShellMoves
  <2>6. ~Usable(d.engine, t) /\ d.engine.phase[t] \in Phases
    BY <1>3, <2>1, <2>5 DEF CefHas, CefStates
  <2>7. ~HasBrowser(d.engine, t)
    BY <2>1, <2>3 DEF ShellMoves, SameBrowsers, HasBrowser
  <2> QED BY <2>6, <2>7 DEF Usable, HasBrowser, Phases
<1> QED BY <1>1, <1>2, <1>3, <1>4, <1>5 DEF ShellInv, Windows

LEMMA RunningFollows ==
  ASSUME NEW s, NEW w, ShellInv(s, w), w # "gone"
  PROVE  Follows(s) /\ SessionInvariant(s) /\ s.restored \in Nat /\ Open(s) \subseteq TabIds
BY SessionFields, OpenAreIds DEF ShellInv, Consistent, Follows, SessionInvariant

LEMMA OpenMoves ==
  ASSUME OverCef, FreshIds, NEW s, NEW w, ShellInv(s, w), w # "gone",
         NEW t \in TabIds, s.engine.phase[t] = "absent",
         \A n \in DOMAIN RestoredId : RestoredId[n] # t, NEW activate
  PROVE  ShellMoves(s, OpenTab(s, t, NewTab, activate))
<1> DEFINE d == OpenTab(s, t, NewTab, activate)
<1>1. NewTab \in Templates
  BY UrlsAssumption DEF NewTab, Templates, Titles
<1>2. Follows(s) /\ s.restored \in Nat
  BY RunningFollows
<1>3. /\ Follows(d) /\ SameBrowsers(s.engine, d.engine)
      /\ Open(d) = Open(s) \cup {t} /\ d.restored = s.restored
  BY <1>1, <1>2, OpenFollows
<1> HIDE DEF d
<1> QED BY <1>2, <1>3 DEF ShellMoves, d

\* A number the loop settles on names no open tab and, in time, no browser.
LEMMA NumberMoves ==
  ASSUME OverCef, FreshIds, ShellInv(session, window), window # "gone",
         NEW index, NEW n \in LowestFree(index), InTime(n)
  PROVE  ShellMoves(session, OpenTab(session, NumberedId[n], NewTab, TRUE))
<1>1. n \in DOMAIN NumberedId /\ ~IsOpen(session, NumberedId[n])
  BY DEF LowestFree, FreeIndex
<1>2. NumberedId[n] \in TabIds
  BY <1>1, NumberedIdAssumption
<1>3. engine.phase[NumberedId[n]] = "absent"
  BY <1>1, <1>2 DEF InTime, FreshIds, ShellInv, CefHas, CefStates, Phases, Usable, IsOpen, engine
<1>4. \A m \in DOMAIN RestoredId : RestoredId[m] # NumberedId[n]
  BY <1>1 DEF FreshIds
<1> QED BY <1>2, <1>3, <1>4, OpenMoves DEF engine

LEMMA CloseMoves ==
  ASSUME OverCef, NEW s, NEW w, ShellInv(s, w), w # "gone", NEW t \in Open(s), NEW fallback
  PROVE  ShellMoves(s, CloseTab(s, t, fallback))
<1> DEFINE d == CloseTab(s, t, fallback)
<1>1. Follows(s) /\ s.restored \in Nat
  BY RunningFollows
<1>2. /\ Follows(d) /\ SameBrowsers(s.engine, d.engine)
      /\ Open(d) = Open(s) \ {t} /\ d.restored = s.restored
  BY <1>1, CloseFollows
<1> HIDE DEF d
<1> QED BY <1>1, <1>2 DEF ShellMoves, d

LEMMA CallMoves ==
  ASSUME OverCef, FreshIds, ShellInv(session, window), window # "gone", SessionCall
  PROVE  ShellMoves(session, session')
<1>0. /\ Follows(session) /\ SessionInvariant(session) /\ session.restored \in Nat
      /\ Open(session) \subseteq TabIds
  BY RunningFollows
<1>1. CASE \E t \in Open(session) : session' = ActivateTab(session, t)
  <2>1. PICK t \in Open(session) : session' = ActivateTab(session, t)
    BY <1>1
  <2> DEFINE d == ActivateTab(session, t)
  <2>2. Follows(d) /\ SameBrowsers(session.engine, d.engine)
    BY <1>0, ActivateFollows
  <2>3. Open(d) = Open(session) /\ d.restored = session.restored
    BY <1>0, ActivateTabEffect
  <2> HIDE DEF d
  <2>4. ShellMoves(session, d)
    BY <1>0, <2>2, <2>3 DEF ShellMoves
  <2> QED BY <2>1, <2>4 DEF d
<1>2. CASE \E forward \in BOOLEAN : session' = CycleTab(session, TabIds, forward)
  <2>1. PICK forward \in BOOLEAN : session' = CycleTab(session, TabIds, forward)
    BY <1>2
  <2> DEFINE d == CycleTab(session, TabIds, forward)
  <2>2. /\ Follows(d) /\ SameBrowsers(session.engine, d.engine)
        /\ Open(d) = Open(session) /\ d.restored = session.restored
    BY <1>0, CycleFollows
  <2> HIDE DEF d
  <2>4. ShellMoves(session, d)
    BY <1>0, <2>2 DEF ShellMoves
  <2> QED BY <2>1, <2>4 DEF d
<1>3. CASE /\ session.restored + 1 \in DOMAIN RestoredId
           /\ session' = ReopenLastClosedTab(session, "PersistentOnly")
  <2> DEFINE d  == ReopenLastClosedTab(session, "PersistentOnly")
             id == RestoredId[session.restored + 1]
  <2>1. CASE Reopenable(session, "PersistentOnly") = {}
    <3>1. session' = session
      BY <1>3, <2>1 DEF ReopenLastClosedTab
    <3> QED BY <1>0, <3>1 DEF ShellMoves, SameBrowsers
  <2>2. CASE Reopenable(session, "PersistentOnly") # {}
    <3>1. session.engine.phase[id] = "absent"
      BY <1>0, <1>3 DEF ShellInv, RestoredAreUnused
    <3>2. /\ Follows(d) /\ SameBrowsers(session.engine, d.engine)
          /\ Open(d) = Open(session) \cup {id} /\ d.restored = session.restored + 1
      BY <1>0, <1>3, <2>2, <3>1, ReopenFollows
    <3> HIDE DEF d
    <3>3. ASSUME NEW n \in DOMAIN RestoredId, n > d.restored PROVE RestoredId[n] # id
      BY <1>0, <1>3, <3>2, <3>3 DEF FreshIds
    <3>4. ShellMoves(session, d)
      BY <1>0, <3>2, <3>3 DEF ShellMoves
    <3> QED BY <1>3, <3>4 DEF d
  <2> QED BY <2>1, <2>2
<1>4. CASE \E t \in Open(session), url \in PageUrls : session' = Navigate(session, t, url)
  <2>1. PICK t \in Open(session), url \in PageUrls : session' = Navigate(session, t, url)
    BY <1>4
  <2> DEFINE d == Navigate(session, t, url)
  <2>2. /\ Follows(d) /\ SameBrowsers(session.engine, d.engine)
        /\ Open(d) = Open(session) /\ d.restored = session.restored
    BY <1>0, PageUrlsAssumption, NavigateFollows
  <2> HIDE DEF d
  <2>4. ShellMoves(session, d)
    BY <1>0, <2>2 DEF ShellMoves
  <2> QED BY <2>1, <2>4 DEF d
<1> QED BY <1>1, <1>2, <1>3, <1>4 DEF SessionCall

-----------------------------------------------------------------------------
\* What browsers and the window tell the engine.

LEMMA CreatedKeeps ==
  ASSUME OverCef, NEW s, NEW w \in Windows \ {"starting", "gone"}, ShellInv(s, w),
         NEW t \in TabIds, s.engine.phase[t] = "pending"
  PROVE  LET d == Tell(s, NotifyBrowserCreated(s.engine, t)) IN
         ShellInv(d, w) /\ BrowsersOf(d.engine) = BrowsersOf(s.engine) \cup {t}
<1> DEFINE e == s.engine
           f == NotifyBrowserCreated(e, t)
           d == Tell(s, f)
<1>1. e \in CefStates /\ Consistent(s)
  BY DEF ShellInv, Consistent
<1>2. /\ f \in CefStates /\ f.phase[t] = "live"
      /\ f.live = e.live + 1 /\ f.destroyed = e.destroyed /\ f.quit = e.quit
  BY <1>1, CreatedEffect
<1>3. \A x \in TabIds \ {t} : SameSurface(e, f, x)
  BY <1>1, CreatedEffect
<1>4. /\ Consistent(d) /\ Open(d) = Open(s) /\ d.engine = f
      /\ d.active = s.active /\ d.restored = s.restored
  BY <1>1, CreatedStaysConsistent
<1>7. CefHas(f, Open(s), s.active)
  BY <1>1, CreatedStaysConsistent DEF ShellInv
<1> HIDE DEF f, d
<1>5. BrowsersOf(f) = BrowsersOf(e) \cup {t} /\ t \notin BrowsersOf(e)
  BY <1>2, <1>3 DEF BrowsersOf, HasBrowser, SameSurface
<1>6. Counted(f, w)
  <2>1. /\ IsFiniteSet(BrowsersOf(e)) /\ e.live = Cardinality(BrowsersOf(e))
        /\ ~e.quit
    BY DEF ShellInv, Counted
  <2>2. /\ IsFiniteSet(BrowsersOf(e) \cup {t})
        /\ Cardinality(BrowsersOf(e) \cup {t}) = Cardinality(BrowsersOf(e)) + 1
    BY <1>5, <2>1, FS_AddElement
  <2> QED BY <1>2, <1>5, <2>1, <2>2 DEF Counted
<1>8. RestoredAreUnused(d)
  BY <1>3, <1>4, RestoredIdAssumption DEF ShellInv, RestoredAreUnused, SameSurface
<1>9. ShellInv(d, w)
  BY <1>2, <1>4, <1>6, <1>7, <1>8 DEF ShellInv
<1> QED BY <1>4, <1>5, <1>9 DEF d, f

LEMMA GoneKeeps ==
  ASSUME NEW s, NEW w \in Windows, ShellInv(s, w),
         NEW t \in BrowsersOf(s.engine), w # "gone" => s.engine.phase[t] = "closing"
  PROVE  LET d == Tell(s, NotifyBrowserBeforeClose(s.engine, t)) IN
         ShellInv(d, w) /\ BrowsersOf(d.engine) = BrowsersOf(s.engine) \ {t}
<1> DEFINE e == s.engine
           f == NotifyBrowserBeforeClose(e, t)
           d == Tell(s, f)
<1>1. e \in CefStates /\ Consistent(s) /\ t \in TabIds /\ HasBrowser(e, t)
  BY DEF ShellInv, Consistent, BrowsersOf
<1>2. /\ IsFiniteSet(BrowsersOf(e)) /\ e.live = Cardinality(BrowsersOf(e))
      /\ e.quit => w = "gone" /\ BrowsersOf(e) = {}
  BY DEF ShellInv, Counted
<1>3. /\ IsFiniteSet(BrowsersOf(e) \ {t})
      /\ Cardinality(BrowsersOf(e) \ {t}) = e.live - 1
      /\ Cardinality(BrowsersOf(e) \ {t}) \in Nat
  BY <1>1, <1>2, FS_RemoveElement, FS_CardinalityType DEF BrowsersOf
<1>4. e.live > 0 /\ e.live \in Nat
  BY <1>1, <1>3 DEF CefStates
<1>7. /\ f.phase[t] = "absent"
      /\ f.live = IF e.live > 0 THEN e.live - 1 ELSE e.live
      /\ f.destroyed = e.destroyed
      /\ f.quit => e.quit \/ (e.destroyed /\ f.live = 0)
  BY <1>1, GoneEffect
<1>8. \A x \in TabIds \ {t} : SameSurface(e, f, x)
  BY <1>1, GoneEffect
<1>9. /\ Consistent(d) /\ Open(d) = Open(s) /\ d.engine = f
      /\ d.active = s.active /\ d.restored = s.restored
  BY <1>1, GoneStaysConsistent
<1>12. w # "gone" => CefHas(f, Open(s), s.active)
  BY <1>1, GoneStaysConsistent DEF ShellInv
<1> HIDE DEF f, d
<1>10. BrowsersOf(f) = BrowsersOf(e) \ {t}
  BY <1>7, <1>8 DEF BrowsersOf, HasBrowser, SameSurface
<1>11. Counted(f, w)
  <2>1. f.quit => w = "gone"
    BY <1>2, <1>7 DEF ShellInv
  <2>2. f.quit => BrowsersOf(f) = {}
    <3>1. f.live = 0 => BrowsersOf(f) = {}
      BY <1>3, <1>4, <1>7, <1>10, FS_EmptySet
    <3> QED BY <1>2, <1>7, <3>1
  <2> QED BY <1>3, <1>4, <1>7, <1>10, <2>1, <2>2 DEF Counted
<1>13. RestoredAreUnused(d)
  BY <1>7, <1>8, <1>9, RestoredIdAssumption DEF ShellInv, RestoredAreUnused, SameSurface
<1>14. w = "starting" => \A x \in TabIds : f.phase[x] = "absent"
  BY <1>7, <1>8 DEF ShellInv, SameSurface
<1>15. ShellInv(d, w)
  BY <1>7, <1>9, <1>11, <1>12, <1>13, <1>14 DEF ShellInv
<1> QED BY <1>9, <1>10, <1>15 DEF d, f

\* Asking to close the window is noted, and changes nothing else of the engine.
LEMMA AskedKeeps ==
  ASSUME NEW s, NEW w \in Windows \ {"starting", "gone"}, ShellInv(s, w),
         NEW v \in Windows \ {"starting", "gone"}
  PROVE  LET d == Tell(s, BeginWindowClose(s.engine)) IN
         ShellInv(d, v) /\ BrowsersOf(d.engine) = BrowsersOf(s.engine)
<1> DEFINE e == s.engine
           f == BeginWindowClose(e)
           d == Tell(s, f)
<1>1. Consistent(s) /\ e \in CefStates
  BY DEF ShellInv, Consistent
<1>2. /\ f \in CefStates
      /\ f.phase = e.phase /\ f.queued = e.queued /\ f.visible = e.visible
      /\ f.active = e.active /\ f.live = e.live /\ f.destroyed = e.destroyed /\ f.quit = e.quit
  BY <1>1 DEF BeginWindowClose, CefStates
<1> HIDE DEF f
<1>3. /\ Consistent(d) /\ Open(d) = Open(s) /\ d.engine = f
      /\ d.active = s.active /\ d.restored = s.restored
  BY <1>1, <1>2, TellStaysConsistent
<1> HIDE DEF d
<1>4. BrowsersOf(f) = BrowsersOf(e)
  BY <1>2 DEF BrowsersOf, HasBrowser
<1>5. Counted(f, v)
  BY <1>2, <1>4 DEF ShellInv, Counted
<1>6. CefHas(f, Open(s), s.active)
  BY <1>2 DEF ShellInv, CefHas, Usable
<1>7. RestoredAreUnused(d)
  BY <1>2, <1>3 DEF ShellInv, RestoredAreUnused
<1>8. ShellInv(d, v)
  BY <1>2, <1>3, <1>5, <1>6, <1>7 DEF ShellInv
<1> QED BY <1>3, <1>4, <1>8 DEF d, f

LEMMA WindowGoneKeeps ==
  ASSUME NEW s, ShellInv(s, "destroying")
  PROVE  LET d == Tell(s, NotifyWindowDestroyed(s.engine)) IN
         ShellInv(d, "gone") /\ BrowsersOf(d.engine) = BrowsersOf(s.engine)
<1> DEFINE e == s.engine
           g == [e EXCEPT !.destroyed = TRUE]
           f == NotifyWindowDestroyed(e)
           d == Tell(s, f)
<1>1. Consistent(s) /\ e \in CefStates
  BY DEF ShellInv, Consistent
<1>2. /\ g \in CefStates
      /\ g.phase = e.phase /\ g.queued = e.queued /\ g.visible = e.visible
      /\ g.active = e.active /\ g.live = e.live /\ g.destroyed /\ g.quit = e.quit
  BY <1>1 DEF CefStates
<1>3. f = MaybeQuitAfterClose(g)
  BY DEF NotifyWindowDestroyed
<1> HIDE DEF f, g
<1>4. /\ f \in CefStates
      /\ f.phase = e.phase /\ f.queued = e.queued /\ f.live = e.live /\ f.destroyed
      /\ f.quit => e.quit \/ f.live = 0
  BY <1>2, <1>3, MaybeQuitEffect
<1>5. /\ Consistent(d) /\ Open(d) = Open(s) /\ d.engine = f
      /\ d.active = s.active /\ d.restored = s.restored
  BY <1>1, <1>4, TellStaysConsistent
<1> HIDE DEF d
<1>6. BrowsersOf(f) = BrowsersOf(e)
  BY <1>4 DEF BrowsersOf, HasBrowser
<1>7. Counted(f, "gone")
  <2>1. /\ IsFiniteSet(BrowsersOf(e)) /\ e.live = Cardinality(BrowsersOf(e)) /\ ~e.quit
    BY DEF ShellInv, Counted
  <2>2. f.quit => BrowsersOf(f) = {}
    BY <1>4, <1>6, <2>1, FS_EmptySet
  <2> QED BY <1>4, <1>6, <2>1, <2>2 DEF Counted
<1>8. RestoredAreUnused(d)
  BY <1>4, <1>5 DEF ShellInv, RestoredAreUnused
<1>9. ShellInv(d, "gone")
  BY <1>4, <1>5, <1>7, <1>8 DEF ShellInv, Windows
<1> QED BY <1>5, <1>6, <1>9 DEF d, f

\* An event of a browser that is closing reaches no open tab, or is one of its tab's.
LEMMA EventKeeps ==
  ASSUME NEW s, NEW w, ShellInv(s, w), NEW t \in TabIds, HasBrowser(s.engine, t),
         NEW url \in Urls,
         NEW d, d \in {OnNavigationStarted(s, t, url), OnNavigationCommitted(s, t, url),
                       OnRendererCrashed(s, t)}
  PROVE  ShellInv(d, w) /\ BrowsersOf(d.engine) = BrowsersOf(s.engine)
<1>1. Consistent(s)
  BY DEF ShellInv
<1>2. /\ Consistent(d) /\ Open(d) = Open(s)
      /\ d.engine = s.engine /\ d.active = s.active /\ d.restored = s.restored
  BY <1>1, EventStaysConsistent
<1> QED BY <1>2 DEF ShellInv, RestoredAreUnused

-----------------------------------------------------------------------------
LEMMA InitDesktop == ASSUME OverCef, Init PROVE DesktopInv
<1>1. session = SessionInit(CefInit) /\ window = "starting" /\ asked = {} /\ accepted = {}
  BY DEF Init
<1>2. SessionInvariant(session) /\ Open(session) = {} /\ session.active = NoTabId /\ session.engine = CefInit
  BY <1>1, SessionInitInvariant DEF SessionInit
<1>3. /\ CefInit \in CefStates /\ ~CefInit.destroyed /\ ~CefInit.quit
      /\ \A t \in TabIds : CefInit.phase[t] = "absent"
      /\ CefInit.active = NoTabId /\ CefInit.visible = {} /\ CefInit.live = 0
  BY DEF CefInit, CefStates, Phases, Profile, OverCef
<1>4. BrowsersOf(CefInit) = {}
  BY <1>3 DEF BrowsersOf, HasBrowser
<1>5. Counted(CefInit, window)
  BY <1>3, <1>4, FS_EmptySet DEF Counted
<1>6. Consistent(session)
  BY <1>2, <1>3 DEF Consistent, NoneRests, QueueIsShown
<1>7. CefHas(CefInit, {}, NoTabId)
  BY <1>3 DEF CefHas, Usable
<1>8. RestoredAreUnused(session)
  BY <1>2, <1>3, RestoredIdAssumption DEF RestoredAreUnused
<1>9. ShellInv(session, window)
  BY <1>1, <1>2, <1>3, <1>5, <1>6, <1>7, <1>8 DEF ShellInv, Windows
<1> QED BY <1>1, <1>9 DEF DesktopInv

\* Closing the window asks the browsers that have not accepted.
LEMMA CanCloseKeeps ==
  ASSUME DesktopInv, window \notin {"starting", "gone"},
         NEW closed, closed \subseteq BrowsersOf(session.engine),
         NEW state \in Windows \ {"starting", "gone"}, CanClose(closed, state)
  PROVE  DesktopInv'
<1> DEFINE d == Tell(session, BeginWindowClose(session.engine))
           v == IF Browsers \subseteq closed THEN "destroying" ELSE state
<1>1. session' = d /\ window' = v /\ accepted' = closed /\ asked' = Browsers \ closed
  BY DEF CanClose, engine
<1>2. v \in Windows \ {"starting", "gone"} /\ window \in Windows \ {"starting", "gone"}
  BY DEF Windows, DesktopInv, ShellInv
<1> HIDE DEF v
<1>3. ShellInv(d, v) /\ BrowsersOf(d.engine) = BrowsersOf(session.engine)
  BY <1>2, AskedKeeps DEF DesktopInv
<1> HIDE DEF d
<1>4. Browsers = BrowsersOf(session.engine)
  BY DEF Browsers, BrowsersOf, engine
<1> QED BY <1>1, <1>3, <1>4 DEF DesktopInv

\* Every step of the shell, of a browser and of the window keeps the invariant.
LEMMA NextDesktop ==
  ASSUME OverCef, FreshIds, DesktopInv, [Next]_vars
  PROVE  DesktopInv'
<1>0. /\ ShellInv(session, window) /\ window \in Windows
      /\ asked \subseteq BrowsersOf(session.engine) /\ accepted \subseteq BrowsersOf(session.engine)
      /\ Browsers = BrowsersOf(session.engine)
  BY DEF DesktopInv, ShellInv, Browsers, BrowsersOf, engine
<1>1. ASSUME window \in {"starting", "open", "closing"}, window' \in {"open", "closing"},
             ShellMoves(session, session'),
             asked' \subseteq asked \cup Browsers, accepted' = accepted
      PROVE  DesktopInv'
  <2>1. ShellInv(session', window') /\ BrowsersOf(session'.engine) = BrowsersOf(session.engine)
    BY <1>0, <1>1, ShellMoveKeeps
  <2> QED BY <1>0, <1>1, <2>1 DEF DesktopInv
<1>2. CASE Startup
  <2>1. /\ window = "starting" /\ window' = "open" /\ asked' = asked /\ accepted' = accepted
        /\ session' = OpenTab(session, InitialId, NewTab, FALSE)
    BY <1>2 DEF Startup
  <2>2. InitialId \in TabIds /\ session.engine.phase[InitialId] = "absent"
    BY <1>0, <2>1, InitialIdAssumption DEF ShellInv
  <2>3. \A n \in DOMAIN RestoredId : RestoredId[n] # InitialId
    BY DEF FreshIds
  <2>4. ShellMoves(session, session')
    BY <1>0, <2>1, <2>2, <2>3, OpenMoves
  <2> QED BY <1>1, <2>1, <2>4
<1>3. CASE OpenNewTab
  <2>1. PICK n \in LowestFree(appIndex) :
          InTime(n) /\ session' = OpenTab(session, NumberedId[n], NewTab, TRUE)
    BY <1>3 DEF OpenNewTab
  <2>2. /\ window \in {"open", "closing"} /\ window' = window
        /\ asked' = asked /\ accepted' = accepted
    BY <1>3 DEF OpenNewTab, Usual, external
  <2>3. ShellMoves(session, session')
    BY <1>0, <2>1, <2>2, NumberMoves
  <2> QED BY <1>1, <2>2, <2>3
<1>4. CASE OpenNewTabForActiveWorkspace
  <2>1. PICK n \in LowestFree(stripIndex) :
          InTime(n) /\ session' = OpenTab(session, NumberedId[n], NewTab, TRUE)
    BY <1>4 DEF OpenNewTabForActiveWorkspace
  <2>2. /\ window \in {"open", "closing"} /\ window' = window
        /\ asked' = asked /\ accepted' = accepted
    BY <1>4 DEF OpenNewTabForActiveWorkspace, Usual, external
  <2>3. ShellMoves(session, session')
    BY <1>0, <2>1, <2>2, NumberMoves
  <2> QED BY <1>1, <2>2, <2>3
<1>5. ASSUME NEW t \in TabIds, CloseTabAction(t) PROVE DesktopInv'
  <2>1. /\ window \in {"open", "closing"} /\ window' = window /\ accepted' = accepted
        /\ t \in Open(session) /\ session' = CloseTab(session, t, TRUE)
        /\ engine.phase[t] = "live" \/ asked' = asked
        /\ asked' \subseteq asked \cup {t}
    BY <1>5 DEF CloseTabAction, Usual, IsOpen
  <2>2. asked' \subseteq asked \cup Browsers
    BY <2>1 DEF Browsers, HasBrowser
  <2>3. ShellMoves(session, session')
    BY <1>0, <2>1, CloseMoves
  <2> QED BY <1>1, <2>1, <2>2, <2>3
<1>6. CASE Usual /\ SessionCall /\ UNCHANGED <<appIndex, stripIndex, external>>
  <2>1. /\ window \in {"open", "closing"} /\ window' = window
        /\ asked' = asked /\ accepted' = accepted
    BY <1>6 DEF Usual, external
  <2>2. ShellMoves(session, session')
    BY <1>0, <1>6, <2>1, CallMoves
  <2> QED BY <1>1, <2>1, <2>2
<1>7. ASSUME NEW t \in TabIds, BrowserCreated(t) PROVE DesktopInv'
  <2> DEFINE d == Tell(session, NotifyBrowserCreated(session.engine, t))
  <2>1. /\ session' = d /\ session.engine.phase[t] = "pending"
        /\ window \in Windows \ {"starting", "gone"} /\ window' = window
        /\ asked' = asked /\ accepted' = accepted
    BY <1>0, <1>7 DEF BrowserCreated, external, engine
  <2>2. ShellInv(d, window) /\ BrowsersOf(d.engine) = BrowsersOf(session.engine) \cup {t}
    BY <1>0, <2>1, CreatedKeeps
  <2> HIDE DEF d
  <2> QED BY <1>0, <2>1, <2>2 DEF DesktopInv
<1>8. ASSUME NEW t \in TabIds, BrowserEvent(t) PROVE DesktopInv'
  <2>1. /\ HasBrowser(session.engine, t) /\ window' = window
        /\ asked' = asked /\ accepted' = accepted
    BY <1>8 DEF BrowserEvent, external, Browsers, engine
  <2>2. PICK url \in Urls :
          session' \in {OnNavigationStarted(session, t, url), OnNavigationCommitted(session, t, url),
                        OnRendererCrashed(session, t)}
    BY <1>8, UrlsAssumption, PageUrlsAssumption DEF BrowserEvent
  <2>3. ShellInv(session', window) /\ BrowsersOf(session'.engine) = BrowsersOf(session.engine)
    BY <1>0, <2>1, <2>2, EventKeeps
  <2> QED BY <1>0, <2>1, <2>3 DEF DesktopInv
<1>9. ASSUME NEW t \in TabIds, BrowserGone(t) PROVE DesktopInv'
  <2> DEFINE d == Tell(session, NotifyBrowserBeforeClose(session.engine, t))
  <2>1. /\ session' = d /\ t \in BrowsersOf(session.engine)
        /\ window # "gone" => session.engine.phase[t] = "closing"
        /\ asked' = asked \ {t} /\ accepted' = accepted \ {t} /\ window' = window
    BY <1>0, <1>9 DEF BrowserGone, engine
  <2>2. ShellInv(d, window) /\ BrowsersOf(d.engine) = BrowsersOf(session.engine) \ {t}
    BY <1>0, <2>1, GoneKeeps
  <2> HIDE DEF d
  <2> QED BY <1>0, <2>1, <2>2 DEF DesktopInv
<1>10. CASE UserClosesWindow
  <2>1. window \in {"open", "closing"} /\ CanClose(accepted, "closing")
    BY <1>10 DEF UserClosesWindow
  <2> QED BY <1>0, <2>1, CanCloseKeeps DEF Windows
<1>11. ASSUME NEW t \in TabIds, PageAccepts(t) PROVE DesktopInv'
  <2>1. CASE ShouldSuppressTopLevelCloseForTab(engine)
    <3>1. /\ asked' = asked \ {t} /\ session' = session /\ window' = window
          /\ accepted' = accepted
      BY <1>11, <2>1 DEF PageAccepts
    <3> QED BY <1>0, <3>1 DEF DesktopInv
  <2>2. CASE ~ShouldSuppressTopLevelCloseForTab(engine)
    <3>1. t \in asked /\ window # "gone" /\ CanClose(accepted \cup {t}, window)
      BY <1>11, <2>2 DEF PageAccepts
    <3>2. window # "starting"
      BY <1>0, <3>1 DEF ShellInv, BrowsersOf, HasBrowser
    <3>3. accepted \cup {t} \subseteq BrowsersOf(session.engine)
      BY <1>0, <3>1
    <3> QED BY <1>0, <3>1, <3>2, <3>3, CanCloseKeeps
  <2> QED BY <2>1, <2>2
<1>12. ASSUME NEW t \in TabIds, PageRefuses(t) PROVE DesktopInv'
  <2>1. /\ window \in {"open", "closing"} /\ window' = "open" /\ session' = session
        /\ asked' = asked \ {t} /\ accepted' = accepted
    BY <1>12 DEF PageRefuses
  <2>2. ShellInv(session, "open")
    BY <1>0, <2>1 DEF ShellInv, Counted, Windows
  <2> QED BY <1>0, <2>1, <2>2 DEF DesktopInv
<1>13. CASE OnWindowDestroyed
  <2> DEFINE d == Tell(session, NotifyWindowDestroyed(session.engine))
  <2>1. /\ session' = d /\ window = "destroying" /\ window' = "gone"
        /\ asked' = {} /\ accepted' = accepted
    BY <1>13 DEF OnWindowDestroyed, engine
  <2>2. ShellInv(d, "gone") /\ BrowsersOf(d.engine) = BrowsersOf(session.engine)
    BY <1>0, <2>1, WindowGoneKeeps
  <2> HIDE DEF d
  <2> QED BY <1>0, <2>1, <2>2 DEF DesktopInv
<1>14. CASE UNCHANGED vars
  BY <1>0, <1>14 DEF vars, DesktopInv
<1> QED
  BY <1>2, <1>3, <1>4, <1>5, <1>6, <1>7, <1>8, <1>9, <1>10, <1>11, <1>12, <1>13, <1>14
  DEF Next, Shell

-----------------------------------------------------------------------------
\* EngineMirrorsSession: whatever tabs open, close, are activated, brought back or
\* navigated, and whenever their browsers appear, report and go, the engine has a page
\* for each open tab and no other, shows the active one and nothing else, and keeps for
\* a browser that is not there yet the address the session shows as pending.
THEOREM EngineShowsSession ==
  ASSUME OverCef, FreshIds
  PROVE  Spec => []EngineMirrorsSession
<1>1. Init => DesktopInv
  BY InitDesktop
<1>2. DesktopInv /\ [Next]_vars => DesktopInv'
  BY NextDesktop
<1>3. DesktopInv => EngineMirrorsSession
  <2> SUFFICES ASSUME DesktopInv PROVE EngineMirrorsSession
    OBVIOUS
  <2>1. /\ Consistent(session) /\ window \in Windows
        /\ window # "gone" => CefHas(session.engine, Open(session), session.active)
        /\ asked \subseteq BrowsersOf(session.engine)
        /\ accepted \subseteq BrowsersOf(session.engine)
        /\ Open(session) \subseteq TabIds
    BY OpenAreIds DEF DesktopInv, ShellInv, Consistent, SessionInvariant
  <2>2. TypeOK
    BY <2>1 DEF TypeOK, Consistent, SessionInvariant, CefStates, Windows, Browsers,
                BrowsersOf, engine
  <2>3. PagesMirrorTabs
    BY <2>1 DEF PagesMirrorTabs, Pages, CefHas, engine
  <2>4. OnlyActiveIsVisible
    BY <2>1 DEF OnlyActiveIsVisible, CefHas, engine
  <2>5. QueuedIsPending
    BY <2>1 DEF QueuedIsPending, Consistent, QueueIsShown, engine
  <2> QED BY <2>2, <2>3, <2>4, <2>5 DEF EngineMirrorsSession
<1> QED BY <1>1, <1>2, <1>3, PTL DEF Spec

\* BrowsersAreCounted: live_browser_count_ is the number of browsers, although views
\* close before and after their browser is made, and the message loop is ended only
\* when the window and the last of them are gone.
THEOREM BrowserCountIsExact ==
  ASSUME OverCef, FreshIds
  PROVE  Spec => []BrowsersAreCounted
<1>1. Init => DesktopInv
  BY InitDesktop
<1>2. DesktopInv /\ [Next]_vars => DesktopInv'
  BY NextDesktop
<1>3. DesktopInv => BrowsersAreCounted
  BY DEF DesktopInv, ShellInv, Counted, BrowsersAreCounted, LiveCountExact, QuitIsLast,
         Browsers, BrowsersOf, engine
<1> QED BY <1>1, <1>2, <1>3, PTL DEF Spec

\* WindowOutlivesTabs: the window goes from open to being destroyed only in the step in
\* which the user closes it, or once it has been asked to close before; DoClose keeps
\* the close of a tab from reaching it.
THEOREM TabsLeaveWindowAlone == Spec => WindowOutlivesTabs
<1> DEFINE Body == window = "open" /\ window' = "destroying" => UserClosesWindow \/ engine.closeAsked
<1>1. [Next]_vars => [Body]_vars
  <2> SUFFICES ASSUME Next, window = "open", window' = "destroying"
               PROVE  UserClosesWindow \/ engine.closeAsked
    OBVIOUS
  <2>1. \/ UserClosesWindow
        \/ \E t \in TabIds : PageAccepts(t)
    BY DEF Next, Startup, Shell, OpenNewTab, OpenNewTabForActiveWorkspace, CloseTabAction,
           external, BrowserCreated, BrowserEvent, BrowserGone, PageRefuses, OnWindowDestroyed
  <2>2. ASSUME NEW t \in TabIds, PageAccepts(t) PROVE engine.closeAsked
    BY <2>2 DEF PageAccepts, ShouldSuppressTopLevelCloseForTab
  <2> QED BY <2>1, <2>2
<1>2. Spec => [][Body]_vars
  BY <1>1, PTL DEF Spec
<1> QED BY <1>2 DEF WindowOutlivesTabs

-----------------------------------------------------------------------------
(***************************************************************************)
(* The asynchronous engine implements the synchronous one: an operation of *)
(* the session over Chromium is the same operation over EngineContract,    *)
(* seen through the pages of the open tabs.                                *)
(***************************************************************************)

\* The engine of the contract that has a page for each open tab and shows the active one.
PagesOf(s) == [surfaces |-> Open(s), shown |-> s.active, asleep |-> {}]
Seen(s) == Tell(s, PagesOf(s))

\* The same session over two engines.
OverEngine(c, s, x) == IsSession(s) /\ c = Tell(s, x)

LEMMA OverFields ==
  ASSUME NEW c, NEW s, NEW x, OverEngine(c, s, x)
  PROVE  /\ c.tabs = s.tabs /\ c.tab = s.tab /\ c.active = s.active /\ c.closed = s.closed
         /\ c.clock = s.clock /\ c.restored = s.restored /\ c.engine = x
         /\ Core!Open(c) = Open(s)
<1>1. /\ c.tabs = s.tabs /\ c.tab = s.tab /\ c.active = s.active /\ c.closed = s.closed
      /\ c.clock = s.clock /\ c.restored = s.restored /\ c.engine = x
  BY DEF OverEngine, Tell, IsSession
<1> QED BY <1>1 DEF Core!Open, Open

LEMMA OverTell ==
  ASSUME NEW c, NEW s, NEW x, OverEngine(c, s, x), NEW y, NEW e
  PROVE  OverEngine(Core!Tell(c, y), Tell(s, e), y)
BY DEF OverEngine, Tell, Core!Tell, IsSession

LEMMA OverWithTab ==
  ASSUME NEW c, NEW s, NEW x, OverEngine(c, s, x), NEW t \in TabIds, NEW rec \in TabRecords
  PROVE  OverEngine(Core!WithTab(c, t, rec), WithTab(s, t, rec), x)
<1>1. IsSession(WithTab(s, t, rec))
  BY WithTabFields DEF OverEngine
<1>2. Core!WithTab(Tell(s, x), t, rec) = Tell(WithTab(s, t, rec), x)
  BY DEF OverEngine, Tell, IsSession, WithTab, Core!WithTab
<1> QED BY <1>1, <1>2 DEF OverEngine

LEMMA OverDemote ==
  ASSUME NEW c, NEW s, NEW x, OverEngine(c, s, x)
  PROVE  OverEngine(Core!DemoteActiveTab(c), DemoteActiveTab(s), x)
<1>1. /\ c.tabs = s.tabs /\ c.tab = s.tab /\ c.active = s.active /\ Core!Open(c) = Open(s)
  BY OverFields
<1>2. CASE ~(s.active # NoTabId /\ IsOpen(s, s.active) /\ s.tab[s.active].life = "Active")
  <2>1. DemoteActiveTab(s) = s
    BY <1>2 DEF DemoteActiveTab
  <2>2. Core!DemoteActiveTab(c) = c
    BY <1>1, <1>2 DEF Core!DemoteActiveTab, Core!IsOpen, IsOpen
  <2> QED BY <2>1, <2>2
<1>3. CASE s.active # NoTabId /\ IsOpen(s, s.active) /\ s.tab[s.active].life = "Active"
  <2> DEFINE rec == [s.tab[s.active] EXCEPT !.life = "Background"]
  <2>1. s.active \in TabIds /\ s.tab[s.active] \in TabRecords
    BY <1>3, SessionFields DEF OverEngine
  <2>2. rec \in TabRecords
    BY <2>1 DEF TabRecords, Lifecycles
  <2>3. DemoteActiveTab(s) = WithTab(s, s.active, rec)
    BY <1>3 DEF DemoteActiveTab
  <2>4. Core!DemoteActiveTab(c) = Core!WithTab(c, s.active, rec)
    BY <1>1, <1>3 DEF Core!DemoteActiveTab, Core!IsOpen, IsOpen
  <2> HIDE DEF rec
  <2> DEFINE old == s.active
  <2>5. old \in TabIds
    BY <2>1
  <2> HIDE DEF old
  <2>6. OverEngine(Core!WithTab(c, old, rec), WithTab(s, old, rec), x)
    BY <2>2, <2>5, OverWithTab
  <2> QED BY <2>3, <2>4, <2>6 DEF old
<1> QED BY <1>2, <1>3

LEMMA OverMark ==
  ASSUME NEW c, NEW s, NEW x, OverEngine(c, s, x), NEW t \in TabIds
  PROVE  OverEngine(Core!MarkActive(c, t), MarkActive(s, t), x)
<1> DEFINE rec == [s.tab[t] EXCEPT !.life = "Active", !.seq = s.clock + 1]
           v   == WithTab(s, t, rec)
           w   == Core!WithTab(c, t, rec)
<1>1. c.tab = s.tab /\ c.clock = s.clock
  BY OverFields
<1>2. rec \in TabRecords /\ s.clock + 1 \in Nat
  <2>1. s.tab[t] \in TabRecords /\ s.clock + 1 \in Nat
    BY SessionFields DEF OverEngine
  <2> QED BY <2>1 DEF TabRecords, Lifecycles
<1>3. /\ MarkActive(s, t) = [v EXCEPT !.clock = s.clock + 1, !.active = t]
      /\ Core!MarkActive(c, t) = [w EXCEPT !.clock = s.clock + 1, !.active = t]
  BY <1>1 DEF MarkActive, Core!MarkActive
<1>4. OverEngine(w, v, x)
  BY <1>2, OverWithTab
<1> HIDE DEF v, w, rec
<1> DEFINE next == s.clock + 1
<1>5. next \in Nat /\ t \in TabIds \cup {NoTabId}
  BY <1>2
<1> HIDE DEF next
<1>6. OverEngine([w EXCEPT !.clock = next, !.active = t], [v EXCEPT !.clock = next, !.active = t], x)
  BY <1>4, <1>5 DEF OverEngine, Tell, IsSession
<1> QED BY <1>3, <1>6 DEF next

\* What a session shows of itself is the session over those pages.
LEMMA SeenIsOver ==
  ASSUME NEW s, IsSession(s)
  PROVE  OverEngine(Seen(s), s, PagesOf(s))
BY DEF OverEngine, Seen

LEMMA OverIsSeen ==
  ASSUME NEW c, NEW d, OverEngine(c, d, PagesOf(d))
  PROVE  c = Seen(d)
BY DEF OverEngine, Seen

LEMMA SeenRaise ==
  ASSUME NEW s, SessionInvariant(s), NEW t \in Open(s)
  PROVE  Core!Raise(Seen(s), t) = Seen(Raise(s, t))
<1> DEFINE c == Seen(s)
           x == PagesOf(s)
           m == MarkActive(DemoteActiveTab(s), t)
           n == Core!MarkActive(Core!DemoteActiveTab(c), t)
           d == Raise(s, t)
<1>0. IsSession(s) /\ t \in TabIds
  BY OpenAreIds DEF SessionInvariant
<1>1. OverEngine(c, s, x)
  BY <1>0, SeenIsOver
<1>2. OverEngine(n, m, x)
  <2> HIDE DEF c, x
  <2>1. OverEngine(Core!DemoteActiveTab(c), DemoteActiveTab(s), x)
    BY <1>1, OverDemote
  <2> QED BY <1>0, <2>1, OverMark
<1>3. n.engine = x
  BY <1>2, OverFields
<1>4. Core!Raise(c, t) = Core!Tell(n, ContractActivate(x, t))
  BY <1>3 DEF Core!Raise
<1>5. d = Tell(m, EngineActivate(m.engine, t))
  BY DEF Raise
<1>6. OverEngine(Core!Tell(n, ContractActivate(x, t)), Tell(m, EngineActivate(m.engine, t)),
                 ContractActivate(x, t))
  <2> HIDE DEF n, m, x
  <2> QED BY <1>2, OverTell
<1>7. Open(d) = Open(s) /\ d.active = t
  BY RaiseEffect
<1>8. ContractActivate(x, t) = PagesOf(d)
  <2> HIDE DEF d
  <2> QED BY <1>7 DEF ContractActivate, PagesOf
<1> HIDE DEF d, x, m, n, c
<1>9. OverEngine(Core!Raise(c, t), d, PagesOf(d))
  BY <1>4, <1>5, <1>6, <1>8
<1> QED BY <1>9, OverIsSeen DEF c, d

\* No tab needs to be revived.
LEMMA SeenActivate ==
  ASSUME NEW s, SessionInvariant(s), NoneRests(s), NEW t
  PROVE  Core!ActivateTab(Seen(s), t) = Seen(ActivateTab(s, t))
<1> DEFINE c == Seen(s)
<1>1. c.tab = s.tab /\ c.active = s.active /\ Core!Open(c) = Open(s)
  BY SeenIsOver, OverFields DEF SessionInvariant
<1> HIDE DEF c
<1>2. CASE ~IsOpen(s, t) \/ s.active = t
  <2>1. ActivateTab(s, t) = s
    BY <1>2 DEF ActivateTab
  <2>2. Core!ActivateTab(c, t) = c
    BY <1>1, <1>2 DEF Core!ActivateTab, Core!IsOpen, IsOpen
  <2> QED BY <2>1, <2>2 DEF c
<1>3. CASE IsOpen(s, t) /\ s.active # t
  <2>1. t \in Open(s) /\ s.tab[t].life \notin {"Discarded", "Suspended"}
    BY <1>3 DEF IsOpen, NoneRests
  <2>2. Revived(s, t) = s /\ Core!Revived(c, t) = c
    BY <1>1, <2>1 DEF Revived, Core!Revived
  <2>3. ActivateTab(s, t) = Raise(s, t) /\ Core!ActivateTab(c, t) = Core!Raise(c, t)
    BY <1>1, <1>3, <2>2 DEF ActivateTab, Core!ActivateTab, Core!IsOpen, IsOpen
  <2> QED BY <2>1, <2>3, SeenRaise DEF c
<1> QED BY <1>2, <1>3 DEF c

LEMMA SeenAdd ==
  ASSUME NEW s, SessionInvariant(s), NEW t \in TabIds, ~IsOpen(s, t), NEW tpl \in Templates
  PROVE  Core!AddTab(Seen(s), t, tpl) = Seen(AddTab(s, t, tpl))
<1> DEFINE c     == Seen(s)
           x     == PagesOf(s)
           fresh == FreshTab(tpl)
           d     == AddTab(s, t, tpl)
<1>1. IsSession(s) /\ OverEngine(c, s, x) /\ c.engine = x
  BY SeenIsOver, OverFields DEF SessionInvariant
<1>2. Core!FreshTab(tpl) = fresh
  BY DEF FreshTab, Core!FreshTab
<1>3. /\ IsSession(d) /\ Open(d) = Open(s) \cup {t} /\ d.active = s.active
  BY AddTabEffect DEF SessionInvariant
<1>4. ContractCreate(x, t, fresh) = PagesOf(d)
  <2> HIDE DEF d
  <2> QED BY <1>3 DEF ContractCreate, PagesOf
<1>5. Core!AddTab(c, t, tpl) = Tell(d, ContractCreate(x, t, fresh))
  <2> DEFINE e == EngineCreate(s.engine, t, fresh)
             f == ContractCreate(x, t, fresh)
             l == Append(s.tabs, t)
  <2>1. d = [s EXCEPT !.tabs = l, !.tab[t] = fresh, !.engine = e]
    BY <1>1 DEF AddTab, IsSession
  <2>2. c.tabs = s.tabs
    BY <1>1, OverFields
  <2>3. Core!AddTab(c, t, tpl) = [c EXCEPT !.tabs = l, !.tab[t] = fresh, !.engine = f]
    <3> HIDE DEF c, x, fresh
    <3> QED BY <1>1, <1>2, <2>2 DEF Core!AddTab, OverEngine, Tell, IsSession
  <2>4. c = Tell(s, x)
    BY DEF Seen
  <2> HIDE DEF c, x, fresh, d, e, f, l
  <2> QED BY <1>1, <2>1, <2>3, <2>4 DEF Tell, IsSession, f
<1> QED BY <1>4, <1>5 DEF Seen

LEMMA SeenOpen ==
  ASSUME NEW s, SessionInvariant(s), NEW t \in TabIds, NEW tpl \in Templates, NEW activate
  PROVE  Core!OpenTab(Seen(s), t, tpl, activate) = Seen(OpenTab(s, t, tpl, activate))
<1> DEFINE c     == Seen(s)
           norm  == Normalised(tpl)
           added == AddTab(s, t, norm)
<1>1. c.tabs = s.tabs /\ Core!Open(c) = Open(s)
  BY SeenIsOver, OverFields DEF SessionInvariant
<1>2. Core!Normalised(tpl) = norm /\ norm \in Templates
  BY NormalisedType DEF Normalised, Core!Normalised, IsLegacySyntheticNewTab,
                        Core!IsLegacySyntheticNewTab
<1> HIDE DEF c, norm
<1>3. CASE IsOpen(s, t)
  <2>1. OpenTab(s, t, tpl, activate) = s /\ Core!OpenTab(c, t, tpl, activate) = c
    BY <1>1, <1>3 DEF OpenTab, AcceptsId, Core!OpenTab, Core!AcceptsId, Core!IsOpen, IsOpen
  <2> QED BY <2>1 DEF c
<1>4. CASE ~IsOpen(s, t)
  <2>1. Core!AddTab(c, t, norm) = Seen(added)
    BY <1>2, <1>4, SeenAdd DEF c
  <2>2. SessionInvariant(added) /\ t \in Open(added)
    BY <1>2, <1>4, AddTabEffect
  <2> HIDE DEF added
  <2>3. Core!Raise(Seen(added), t) = Seen(Raise(added, t))
    BY <2>2, SeenRaise
  <2>4. OpenTab(s, t, tpl, activate)
          = IF s.tabs = <<>> \/ activate THEN Raise(added, t) ELSE added
    BY <1>4 DEF OpenTab, AcceptsId, added, norm
  <2>5. Core!OpenTab(c, t, tpl, activate)
          = IF s.tabs = <<>> \/ activate THEN Core!Raise(Seen(added), t) ELSE Seen(added)
    BY <1>1, <1>2, <1>4, <2>1 DEF Core!OpenTab, Core!AcceptsId, Core!IsOpen, IsOpen
  <2> QED BY <2>3, <2>4, <2>5 DEF c
<1> QED BY <1>3, <1>4

LEMMA SeenTell ==
  ASSUME NEW s, IsSession(s), NEW e
  PROVE  Seen(Tell(s, e)) = Seen(s)
<1>1. Tell(s, e).active = s.active /\ Tell(s, e).tabs = s.tabs
  BY DEF Tell, IsSession
<1>2. PagesOf(Tell(s, e)) = PagesOf(s)
  BY <1>1 DEF PagesOf, Open
<1> QED BY <1>2 DEF Seen, Tell, IsSession

LEMMA SeenRemember ==
  ASSUME NEW s, SessionInvariant(s), NEW t \in Open(s)
  PROVE  Core!RememberClosed(Seen(s), t) = Seen(RememberClosed(s, t))
<1> DEFINE c == Seen(s)
           x == PagesOf(s)
           d == RememberClosed(s, t)
<1>1. IsSession(s) /\ c = Tell(s, x) /\ c.tab = s.tab /\ c.closed = s.closed
  BY SeenIsOver, OverFields DEF SessionInvariant, Seen
<1>2. d.active = s.active /\ Open(d) = Open(s)
  BY RememberClosedEffect
<1>3. PagesOf(d) = x
  <2> HIDE DEF d
  <2> QED BY <1>2 DEF PagesOf
<1>4. CASE IsBlankOrNewTabUrl(s.tab[t].url)
  <2>1. d = s
    BY <1>4 DEF RememberClosed
  <2>2. Core!RememberClosed(c, t) = c
    <3> HIDE DEF c
    <3> QED BY <1>1, <1>4 DEF Core!RememberClosed, Core!IsBlankOrNewTabUrl, IsBlankOrNewTabUrl
  <2> QED BY <2>1, <2>2
<1>5. CASE ~IsBlankOrNewTabUrl(s.tab[t].url)
  <2> DEFINE l == Remembered(s.closed, ClosedRecord(s.tab[t]))
  <2>1. d = [s EXCEPT !.closed = l]
    BY <1>1, <1>5 DEF RememberClosed, IsSession
  <2>2. Core!Remembered(s.closed, Core!ClosedRecord(s.tab[t])) = l
    BY DEF Core!Remembered, Remembered, Core!ClosedRecord, ClosedRecord
  <2>3. Core!RememberClosed(c, t) = [c EXCEPT !.closed = l]
    <3> HIDE DEF c, l
    <3>1. ~Core!IsBlankOrNewTabUrl(c.tab[t].url)
      BY <1>1, <1>5 DEF Core!IsBlankOrNewTabUrl, IsBlankOrNewTabUrl
    <3>2. Core!RememberClosed(c, t)
            = [c EXCEPT !.closed = Core!Remembered(@, Core!ClosedRecord(c.tab[t]))]
      BY <3>1 DEF Core!RememberClosed
    <3>3. Core!RememberClosed(c, t)
            = [c EXCEPT !.closed = Core!Remembered(c.closed, Core!ClosedRecord(c.tab[t]))]
      BY <3>2
    <3> QED BY <1>1, <2>2, <3>3
  <2> HIDE DEF l, c, x, d
  <2>4. Core!RememberClosed(c, t) = Tell(d, x)
    BY <1>1, <2>1, <2>3 DEF Tell, IsSession
  <2> QED BY <1>3, <2>4 DEF Seen, c, d
<1> QED BY <1>4, <1>5

LEMMA SeenRemove ==
  ASSUME NEW s, SessionInvariant(s), NEW t \in Open(s)
  PROVE  Core!RemoveTab(Seen(s), t) = Seen(RemoveTab(s, t))
<1> DEFINE c == Seen(s)
           x == PagesOf(s)
           d == RemoveTab(s, t)
           l == RemoveAt(s.tabs, IndexOf(s, t))
           e == EngineClose(s.engine, t)
           f == ContractClose(x, t)
           a == IF s.active = t THEN NoTabId ELSE s.active
           tabs == [s.tab EXCEPT ![t] = NoTab]
<1>1. IsSession(s) /\ c = Tell(s, x) /\ c.tab = s.tab /\ c.tabs = s.tabs /\ c.active = s.active
      /\ c.engine = x
  BY SeenIsOver, OverFields DEF SessionInvariant, Seen
<1>2. d.active = a /\ Open(d) = Open(s) \ {t}
  BY RemoveTabEffect
<1>3. f = PagesOf(d)
  <2> HIDE DEF d
  <2> QED BY <1>2 DEF PagesOf, ContractClose
<1>4. d = [s EXCEPT !.engine = e, !.tabs = l, !.tab = tabs, !.active = a]
  BY <1>1 DEF RemoveTab, IsSession
<1>5. Core!IndexOf(c, t) = IndexOf(s, t)
  <2> HIDE DEF c
  <2> QED BY <1>1 DEF Core!IndexOf, IndexOf
<1>6. Core!RemoveAt(s.tabs, IndexOf(s, t)) = l
  BY DEF Core!RemoveAt, RemoveAt
<1>7. Core!RemoveTab(c, t) = [c EXCEPT !.engine = f, !.tabs = l, !.tab = tabs, !.active = a]
  <2> HIDE DEF c, l, x
  <2>1. Core!NoTab = NoTab
    BY DEF Core!NoTab, NoTab
  <2>2. Core!RemoveTab(c, t)
          = [c EXCEPT !.engine = ContractClose(x, t), !.tabs = Core!RemoveAt(s.tabs, IndexOf(s, t)),
                      !.tab = [s.tab EXCEPT ![t] = NoTab],
                      !.active = IF s.active = t THEN NoTabId ELSE s.active]
    BY <1>1, <1>5, <2>1 DEF Core!RemoveTab, Tell, IsSession
  <2> QED BY <1>6, <2>2
<1> HIDE DEF c, x, d, l, e, f, a, tabs
<1>8. Core!RemoveTab(c, t) = Tell(d, f)
  BY <1>1, <1>4, <1>7 DEF Tell, IsSession
<1> QED BY <1>3, <1>8 DEF Seen, c, d

LEMMA SeenClose ==
  ASSUME NEW s, SessionInvariant(s), NoneRests(s), NEW t \in Open(s), NEW fallback
  PROVE  Core!CloseTab(Seen(s), t, fallback) = Seen(CloseTab(s, t, fallback))
<1> DEFINE c    == Seen(s)
           kept == RememberClosed(s, t)
           gone == RemoveTab(kept, t)
           i    == IndexOf(s, t)
<1>0. Open(s) \subseteq TabIds /\ IsSession(s)
  BY OpenAreIds DEF SessionInvariant
<1>1. /\ SessionInvariant(kept) /\ Open(kept) = Open(s)
  BY RememberClosedEffect
<1>2. /\ SessionInvariant(gone)
      /\ Open(gone) = Open(s) \ {t}
      /\ \A x \in TabIds \ {t} : gone.tab[x] = s.tab[x]
  BY CloseTabEffect
<1>3. NoneRests(gone)
  <2> HIDE DEF gone
  <2> QED BY <1>0, <1>2 DEF NoneRests
<1>4. Core!RemoveTab(Core!RememberClosed(c, t), t) = Seen(gone)
  <2>1. Core!RememberClosed(c, t) = Seen(kept)
    BY SeenRemember
  <2> HIDE DEF kept
  <2>2. Core!RemoveTab(Seen(kept), t) = Seen(gone)
    BY <1>1, SeenRemove
  <2> QED BY <2>1, <2>2
<1>5. /\ c.tabs = s.tabs /\ c.active = s.active /\ Core!Open(c) = Open(s)
  BY <1>0, SeenIsOver, OverFields
<1> HIDE DEF c, gone, kept
<1>6. Core!IndexOf(c, t) = i
  BY <1>5 DEF Core!IndexOf, IndexOf
<1> HIDE DEF i
<1>7. Core!ActivateAfterClose(Seen(gone), i) = Seen(ActivateAfterClose(gone, i))
  <2> DEFINE g == Seen(gone)
             y == Successor(gone, gone.tabs, i)
  <2>1. g.tabs = gone.tabs /\ g.tab = gone.tab
    BY <1>2, SeenIsOver, OverFields DEF SessionInvariant
  <2>2. Core!ActivateTab(g, y) = Seen(ActivateTab(gone, y))
    <3> HIDE DEF y
    <3> QED BY <1>2, <1>3, SeenActivate
  <2>3. ActivateAfterClose(gone, i) = IF gone.tabs = <<>> THEN gone ELSE ActivateTab(gone, y)
    BY DEF ActivateAfterClose
  <2> HIDE DEF g
  <2>4. Core!Successor(g, gone.tabs, i) = y
    BY <2>1 DEF Core!Successor, Successor, Core!ScanIndex, ScanIndex
  <2> HIDE DEF y
  <2>5. Core!ActivateAfterClose(g, i) = IF gone.tabs = <<>> THEN g ELSE Core!ActivateTab(g, y)
    BY <2>1, <2>4 DEF Core!ActivateAfterClose
  <2> QED BY <2>2, <2>3, <2>5 DEF g
<1>8. CloseTab(s, t, fallback)
        = IF s.active = t /\ fallback THEN ActivateAfterClose(gone, i) ELSE gone
  BY DEF CloseTab, IsOpen, gone, kept, i
<1>9. Core!CloseTab(c, t, fallback)
        = IF s.active = t /\ fallback THEN Core!ActivateAfterClose(Seen(gone), i) ELSE Seen(gone)
  BY <1>4, <1>5, <1>6 DEF Core!CloseTab, Core!IsOpen
<1> QED BY <1>7, <1>8, <1>9 DEF c

LEMMA SeenReopen ==
  ASSUME NEW s, SessionInvariant(s), NEW mode, s.restored + 1 \in DOMAIN RestoredId
  PROVE  Core!ReopenLastClosedTab(Seen(s), mode) = Seen(ReopenLastClosedTab(s, mode))
<1> DEFINE c == Seen(s)
           x == PagesOf(s)
           k == NewestReopenable(s, mode)
           u == Unlisted(s, k)
           l == RemoveAt(s.closed, k)
           n == s.restored + 1
<1>1. IsSession(s) /\ c = Tell(s, x) /\ c.closed = s.closed /\ c.restored = s.restored
  BY SeenIsOver, OverFields DEF SessionInvariant, Seen
<1>2. Core!Reopenable(c, mode) = Reopenable(s, mode)
  <2> HIDE DEF c
  <2> QED BY <1>1 DEF Core!Reopenable, Reopenable
<1>3. Core!NewestReopenable(c, mode) = k
  <2> HIDE DEF c
  <2> QED BY <1>2 DEF Core!NewestReopenable, NewestReopenable
<1>4. CASE Reopenable(s, mode) = {}
  <2>1. ReopenLastClosedTab(s, mode) = s
    BY <1>4 DEF ReopenLastClosedTab
  <2>2. Core!ReopenLastClosedTab(c, mode) = c
    <3> HIDE DEF c
    <3> QED BY <1>2, <1>4 DEF Core!ReopenLastClosedTab
  <2> QED BY <2>1, <2>2
<1>5. CASE Reopenable(s, mode) # {}
  <2> DEFINE id  == RestoredId[n]
             rec == s.closed[k]
             v   == [c EXCEPT !.closed = l, !.restored = n]
  <2>1. k \in 1 .. Len(s.closed)
    BY <1>5, NewestReopenableEffect
  <2>2. ReopenLastClosedTab(s, mode) = OpenTab(u, id, rec, TRUE) /\ id \in TabIds /\ rec \in Templates
    BY <1>5, ReopenCases DEF Memorable
  <2> HIDE DEF k
  <2>3. /\ SessionInvariant(u) /\ u.active = s.active /\ Open(u) = Open(s)
    BY <2>1, UnlistedEffect
  <2>4. u = [s EXCEPT !.closed = l, !.restored = n]
    BY <1>1 DEF Unlisted, IsSession
  <2>5. Core!RemoveAt(s.closed, k) = l
    BY DEF Core!RemoveAt, RemoveAt
  <2>6. Core!ReopenLastClosedTab(c, mode) = Core!OpenTab(v, id, rec, TRUE)
    <3> HIDE DEF c, l, u
    <3>1. Core!ReopenLastClosedTab(c, mode)
            = Core!OpenTab([c EXCEPT !.closed = Core!RemoveAt(@, k), !.restored = @ + 1],
                           RestoredId[c.restored + 1], c.closed[k], TRUE)
      BY <1>2, <1>3, <1>5 DEF Core!ReopenLastClosedTab
    <3>2. [c EXCEPT !.closed = Core!RemoveAt(@, k), !.restored = @ + 1] = v
      BY <1>1, <2>5 DEF Tell, IsSession
    <3> QED BY <1>1, <3>1, <3>2
  <2>7. v = Seen(u)
    <3>1. PagesOf(u) = x
      <4> HIDE DEF u
      <4> QED BY <2>3 DEF PagesOf
    <3>2. v = Tell(u, x)
      <4> DEFINE w == [s EXCEPT !.closed = l, !.restored = n]
      <4>1. u = w
        BY <2>4
      <4>2. n \in Nat
        BY <1>1, SessionFields
      <4> HIDE DEF c, l, x, u, n
      <4>3. v = Tell(w, x)
        BY <1>1, <4>2 DEF Tell, IsSession
      <4> QED BY <4>1, <4>3
    <3> QED BY <3>1, <3>2 DEF Seen
  <2>8. Core!OpenTab(Seen(u), id, rec, TRUE) = Seen(OpenTab(u, id, rec, TRUE))
    <3> HIDE DEF u, id, rec
    <3> QED BY <2>2, <2>3, SeenOpen
  <2> HIDE DEF v, u, id, rec
  <2> QED BY <2>2, <2>6, <2>7, <2>8
<1> QED BY <1>4, <1>5

\* Writing one tab's record and telling the engine, over the pages of the open tabs.
LEMMA SeenWrite ==
  ASSUME NEW s, SessionInvariant(s), NEW t \in Open(s), NEW rec \in TabRecords, NEW e
  PROVE  /\ Core!WithTab(Seen(s), t, rec) = Seen(WithTab(s, t, rec))
         /\ Core!Tell(Core!WithTab(Seen(s), t, rec), PagesOf(s)) = Seen(Tell(WithTab(s, t, rec), e))
<1> DEFINE c == Seen(s)
           x == PagesOf(s)
           w == WithTab(s, t, rec)
           v == Core!WithTab(c, t, rec)
<1>0. IsSession(s) /\ t \in TabIds
  BY OpenAreIds DEF SessionInvariant
<1>1. OverEngine(c, s, x)
  BY <1>0, SeenIsOver
<1>2. OverEngine(v, w, x)
  <2> HIDE DEF c, x
  <2> QED BY <1>0, <1>1, OverWithTab
<1>3. IsSession(w) /\ w.active = s.active /\ Open(w) = Open(s)
  BY <1>0, WithTabFields
<1>4. PagesOf(w) = x
  <2> HIDE DEF w
  <2> QED BY <1>3 DEF PagesOf
<1>5. v = Seen(w)
  BY <1>2, <1>4, OverIsSeen
<1>6. Core!Tell(v, x) = v
  <2> HIDE DEF v, w, x
  <2> QED BY <1>2 DEF OverEngine, Core!Tell, Tell, IsSession
<1>7. Seen(Tell(w, e)) = Seen(w)
  BY <1>3, SeenTell
<1> QED BY <1>5, <1>6, <1>7

LEMMA SeenNavigate ==
  ASSUME NEW s, SessionInvariant(s), NoneRests(s), NEW t \in Open(s), NEW url \in Urls
  PROVE  Core!Navigate(Seen(s), t, url) = Seen(Navigate(s, t, url))
<1> DEFINE c   == Seen(s)
           rec == Requested(s.tab[t], url)
           e   == EngineNavigate(s.engine, t, url)
<1>1. /\ s.tab[t] \in TabRecords /\ s.tab[t].life \notin {"Suspended", "Discarded"}
  BY OpenTabFacts DEF NoneRests
<1>2. rec \in TabRecords
  BY <1>1, UrlsAssumption DEF Requested, TabRecords, NavStates
<1>3. c.tab = s.tab /\ Core!Open(c) = Open(s) /\ c.engine = PagesOf(s)
  BY SeenIsOver, OverFields DEF SessionInvariant
<1>4. Navigate(s, t, url) = Tell(WithTab(s, t, rec), e)
  BY <1>1 DEF Navigate, Woken, Alive, IsOpen
<1>5. Core!Navigate(c, t, url) = Core!Tell(Core!WithTab(c, t, rec), PagesOf(s))
  <2> HIDE DEF c
  <2>1. Core!Woken(c, t) = c /\ Core!Alive(c, t)
    BY <1>1, <1>3 DEF Core!Woken, Core!Alive, Core!IsOpen
  <2>2. Core!Requested(c.tab[t], url) = rec
    BY <1>3 DEF Core!Requested, Requested
  <2>3. Core!Navigate(c, t, url)
          = Core!Tell(Core!WithTab(c, t, Core!Requested(c.tab[t], url)),
                      ContractNavigate(c.engine, t, url))
    BY <2>1 DEF Core!Navigate
  <2> QED BY <1>3, <2>2, <2>3 DEF ContractNavigate
<1> HIDE DEF rec, e
<1> QED BY <1>2, <1>4, <1>5, SeenWrite

LEMMA SeenEvent ==
  ASSUME NEW s, SessionInvariant(s), NEW t, NEW url \in Urls
  PROVE  /\ Core!OnNavigationStarted(Seen(s), t, url) = Seen(OnNavigationStarted(s, t, url))
         /\ Core!OnNavigationCommitted(Seen(s), t, url) = Seen(OnNavigationCommitted(s, t, url))
         /\ Core!OnRendererCrashed(Seen(s), t) = Seen(OnRendererCrashed(s, t))
<1> DEFINE c == Seen(s)
<1>1. c.tab = s.tab /\ Core!Open(c) = Open(s)
  BY SeenIsOver, OverFields DEF SessionInvariant
<1> HIDE DEF c
<1>2. Core!Alive(c, t) <=> Alive(s, t)
  BY <1>1 DEF Core!Alive, Core!IsOpen, Alive, IsOpen
<1>3. CASE ~Alive(s, t)
  BY <1>2, <1>3 DEF Core!OnNavigationStarted, Core!OnNavigationCommitted, Core!OnRendererCrashed,
                    OnNavigationStarted, OnNavigationCommitted, OnRendererCrashed, c
<1>4. CASE Alive(s, t)
  <2> DEFINE tab       == s.tab[t]
             started   == [tab EXCEPT !.pending = url, !.nav = "Loading",
                                      !.error = FALSE, !.crashed = FALSE]
             committed == CommittedTab(tab, url)
             crashed   == [tab EXCEPT !.crashed = TRUE, !.nav = "Failed", !.error = TRUE]
  <2>1. t \in Open(s) /\ tab \in TabRecords
    BY <1>4, OpenTabFacts DEF Alive, IsOpen
  <2> HIDE DEF tab
  <2>2. started \in TabRecords /\ committed \in TabRecords /\ crashed \in TabRecords
    BY <2>1 DEF TabRecords, NavStates, CommittedTab
  <2>3. Core!CommittedTab(tab, url) = committed
    BY DEF Core!CommittedTab, CommittedTab
  <2> HIDE DEF committed
  <2>4. /\ OnNavigationStarted(s, t, url) = WithTab(s, t, started)
        /\ OnNavigationCommitted(s, t, url) = WithTab(s, t, committed)
        /\ OnRendererCrashed(s, t) = WithTab(s, t, crashed)
    BY <1>4 DEF OnNavigationStarted, OnNavigationCommitted, OnRendererCrashed, tab, committed
  <2>5. /\ Core!OnNavigationStarted(c, t, url) = Core!WithTab(c, t, started)
        /\ Core!OnNavigationCommitted(c, t, url) = Core!WithTab(c, t, committed)
        /\ Core!OnRendererCrashed(c, t) = Core!WithTab(c, t, crashed)
    BY <1>1, <1>2, <1>4, <2>3
       DEF Core!OnNavigationStarted, Core!OnNavigationCommitted, Core!OnRendererCrashed, tab
  <2> HIDE DEF started, crashed
  <2> QED BY <2>1, <2>2, <2>4, <2>5, SeenWrite DEF c
<1> QED BY <1>3, <1>4 DEF c

\* With the invariant, what the abstraction shows is what the session shows.
LEMMA CoreIsSeen == DesktopInv => CoreSession = Seen(session)
<1> SUFFICES ASSUME DesktopInv PROVE CoreSession = Seen(session)
  OBVIOUS
<1>1. /\ IsSession(session) /\ Open(session) \subseteq TabIds
      /\ window # "gone" => CefHas(session.engine, Open(session), session.active)
  BY OpenAreIds DEF DesktopInv, ShellInv, Consistent, SessionInvariant
<1>2. window # "gone" => Pages = Open(session) /\ engine.active = session.active
  BY <1>1 DEF CefHas, Pages, engine
<1> QED BY <1>2 DEF CoreSession, Seen, Tell, PagesOf

\* The steps of the session over the contract that the desktop takes.
LEMMA CoreSteps ==
  ASSUME CoreSession = Seen(session), SessionInvariant(session)
  PROVE  /\ session.clock < MaxActivations =>
              /\ \A t \in TabIds, activate \in BOOLEAN :
                   CoreSession' = Core!OpenTab(CoreSession, t, NewTab, activate) => Core!Next
              /\ \A t \in TabIds :
                   CoreSession' = Core!CloseTab(CoreSession, t, TRUE) => Core!Next
              /\ \A t \in TabIds : CoreSession' = Core!ActivateTab(CoreSession, t) => Core!Next
              /\ /\ session.restored + 1 \in DOMAIN RestoredId
                 /\ CoreSession' = Core!ReopenLastClosedTab(CoreSession, "PersistentOnly")
                 => Core!Next
         /\ \A t \in TabIds, url \in PageUrls :
              \/ CoreSession' = Core!Navigate(CoreSession, t, url)
              \/ CoreSession' = Core!OnNavigationStarted(CoreSession, t, url)
              \/ CoreSession' = Core!OnNavigationCommitted(CoreSession, t, url)
              => Core!Next
         /\ \A t \in TabIds : CoreSession' = Core!OnRendererCrashed(CoreSession, t) => Core!Next
<1>1. CoreSession.clock = session.clock /\ CoreSession.restored = session.restored
  BY SeenIsOver, OverFields DEF SessionInvariant
<1> HIDE DEF CoreSession
<1>2. ASSUME session.clock < MaxActivations,
             NEW t \in TabIds, NEW activate \in BOOLEAN,
             CoreSession' = Core!OpenTab(CoreSession, t, NewTab, activate)
      PROVE  Core!Next
  <2>1. Core!OpenTabCall(t, [url |-> NewTabUrl, title |-> "placeholder", eph |-> FALSE], activate)
    BY <1>1, <1>2 DEF Core!OpenTabCall, Core!MayActivate, NewTab
  <2> QED BY <2>1 DEF Core!Next, Titles
<1>3. ASSUME session.clock < MaxActivations, NEW t \in TabIds,
             CoreSession' = Core!CloseTab(CoreSession, t, TRUE)
      PROVE  Core!Next
  <2>1. Core!CloseTabCall(t, TRUE)
    BY <1>1, <1>3 DEF Core!CloseTabCall, Core!MayActivate
  <2> QED BY <2>1 DEF Core!Next
<1>4. ASSUME session.clock < MaxActivations, NEW t \in TabIds,
             CoreSession' = Core!ActivateTab(CoreSession, t)
      PROVE  Core!Next
  <2>1. Core!ActivateTabCall(t)
    BY <1>1, <1>4 DEF Core!ActivateTabCall, Core!MayActivate
  <2> QED BY <2>1 DEF Core!Next
<1>5. ASSUME session.clock < MaxActivations, session.restored + 1 \in DOMAIN RestoredId,
             CoreSession' = Core!ReopenLastClosedTab(CoreSession, "PersistentOnly")
      PROVE  Core!Next
  <2>1. Core!ReopenCall("PersistentOnly")
    BY <1>1, <1>5 DEF Core!ReopenCall, Core!MayActivate
  <2> QED BY <2>1 DEF Core!Next, Core!ClosedModes
<1>6. ASSUME NEW t \in TabIds, NEW url \in PageUrls,
             \/ CoreSession' = Core!Navigate(CoreSession, t, url)
             \/ CoreSession' = Core!OnNavigationStarted(CoreSession, t, url)
             \/ CoreSession' = Core!OnNavigationCommitted(CoreSession, t, url)
      PROVE  Core!Next
  <2>1. \/ Core!NavigateCall(t, url)
        \/ Core!NavigationStartedEvent(t, url)
        \/ Core!NavigationCommittedEvent(t, url)
    BY <1>6 DEF Core!NavigateCall, Core!NavigationStartedEvent, Core!NavigationCommittedEvent
  <2> QED BY <2>1 DEF Core!Next, Core!EngineEvent
<1>7. ASSUME NEW t \in TabIds, CoreSession' = Core!OnRendererCrashed(CoreSession, t)
      PROVE  Core!Next
  <2>1. Core!RendererCrashedEvent(t)
    BY <1>7 DEF Core!RendererCrashedEvent
  <2> QED BY <2>1 DEF Core!Next, Core!EngineEvent
<1> QED BY <1>2, <1>3, <1>4, <1>5, <1>6, <1>7

\* A call of the shell is a step of the session over the contract, or changes nothing.
LEMMA ShellCallImplements ==
  ASSUME DesktopInv, CoreSession = Seen(session), CoreSession' = Seen(session'),
         SessionCall, session.clock < MaxActivations
  PROVE  Core!Next \/ CoreSession' = CoreSession
<1>0. SessionInvariant(session) /\ NoneRests(session) /\ Open(session) \subseteq TabIds
  BY OpenAreIds DEF DesktopInv, ShellInv, Consistent, SessionInvariant
<1>1. ASSUME NEW t, session' = ActivateTab(session, t) PROVE Core!Next \/ CoreSession' = CoreSession
  <2>1. CoreSession' = Core!ActivateTab(CoreSession, t)
    BY <1>0, <1>1, SeenActivate
  <2>2. CASE t \in TabIds
    BY <1>0, <2>1, <2>2, CoreSteps
  <2>3. CASE t \notin TabIds
    <3>1. session' = session
      BY <1>0, <1>1, <2>3 DEF ActivateTab, IsOpen
    <3> QED BY <3>1
  <2> QED BY <2>2, <2>3
<1>2. CASE \E t \in Open(session) : session' = ActivateTab(session, t)
  BY <1>1, <1>2
<1>3. CASE \E forward \in BOOLEAN : session' = CycleTab(session, TabIds, forward)
  <2>1. PICK forward \in BOOLEAN : session' = CycleTab(session, TabIds, forward)
    BY <1>3
  <2>2. session' = session \/ session' = ActivateTab(session, CycleTarget(session, TabIds, forward))
    BY <2>1 DEF CycleTab
  <2> QED BY <1>1, <2>2
<1>4. CASE /\ session.restored + 1 \in DOMAIN RestoredId
           /\ session' = ReopenLastClosedTab(session, "PersistentOnly")
  <2>1. CoreSession' = Core!ReopenLastClosedTab(CoreSession, "PersistentOnly")
    BY <1>0, <1>4, SeenReopen
  <2> QED BY <1>0, <1>4, <2>1, CoreSteps
<1>5. CASE \E t \in Open(session), url \in PageUrls : session' = Navigate(session, t, url)
  <2>1. PICK t \in Open(session), url \in PageUrls : session' = Navigate(session, t, url)
    BY <1>5
  <2>2. CoreSession' = Core!Navigate(CoreSession, t, url)
    BY <1>0, <2>1, PageUrlsAssumption, SeenNavigate
  <2> QED BY <1>0, <2>1, <2>2, CoreSteps
<1> QED BY <1>2, <1>3, <1>4, <1>5 DEF SessionCall

LEMMA DesktopStepImplements ==
  ASSUME OverCef, FreshIds, 0 < MaxActivations, DesktopInv, [Next]_vars,
         window = "starting" => session.clock = 0
  PROVE  [Core!Next]_CoreSession
<1>0. /\ SessionInvariant(session) /\ NoneRests(session) /\ Open(session) \subseteq TabIds
      /\ IsSession(session)
  BY OpenAreIds DEF DesktopInv, ShellInv, Consistent, SessionInvariant
<1>1. DesktopInv'
  BY NextDesktop
<1>2. CoreSession = Seen(session) /\ CoreSession' = Seen(session')
  <2>1. (DesktopInv => CoreSession = Seen(session))'
    BY CoreIsSeen, PTL
  <2> QED BY <1>1, <2>1, CoreIsSeen
<1>a. NewTab \in Templates
  BY UrlsAssumption DEF NewTab, Templates, Titles
<1>3. ASSUME NEW t \in TabIds, NEW activate \in BOOLEAN, session.clock < MaxActivations,
             session' = OpenTab(session, t, NewTab, activate)
      PROVE  Core!Next
  <2>1. CoreSession' = Core!OpenTab(CoreSession, t, NewTab, activate)
    BY <1>0, <1>2, <1>3, <1>a, SeenOpen
  <2> QED BY <1>0, <1>2, <1>3, <2>1, CoreSteps
<1>4. ASSUME NEW e, session' = Tell(session, e) PROVE CoreSession' = CoreSession
  BY <1>0, <1>2, <1>4, SeenTell
<1>5. CASE Startup
  <2>1. session' = OpenTab(session, InitialId, NewTab, FALSE) /\ session.clock = 0
    BY <1>5 DEF Startup
  <2> QED BY <1>3, <2>1, InitialIdAssumption
<1>6. CASE OpenNewTab \/ OpenNewTabForActiveWorkspace
  <2>1. PICK n \in DOMAIN NumberedId : session' = OpenTab(session, NumberedId[n], NewTab, TRUE)
    BY <1>6 DEF OpenNewTab, OpenNewTabForActiveWorkspace, LowestFree, FreeIndex
  <2>2. session.clock < MaxActivations
    BY <1>6 DEF OpenNewTab, OpenNewTabForActiveWorkspace, Usual
  <2> QED BY <1>3, <2>1, <2>2, NumberedIdAssumption
<1>7. ASSUME NEW t \in TabIds, CloseTabAction(t) PROVE Core!Next
  <2>1. /\ t \in Open(session) /\ session.clock < MaxActivations
        /\ session' = CloseTab(session, t, TRUE)
    BY <1>7 DEF CloseTabAction, Usual, IsOpen
  <2>2. CoreSession' = Core!CloseTab(CoreSession, t, TRUE)
    BY <1>0, <1>2, <2>1, SeenClose
  <2> QED BY <1>0, <1>2, <2>1, <2>2, CoreSteps
<1>8. CASE Usual /\ SessionCall
  BY <1>2, <1>8, ShellCallImplements DEF Usual
<1>9. ASSUME NEW t \in TabIds, BrowserEvent(t) PROVE Core!Next
  <2>1. CASE \E url \in PageUrls : session' = OnNavigationStarted(session, t, url)
    <3>1. PICK url \in PageUrls : session' = OnNavigationStarted(session, t, url)
      BY <2>1
    <3>2. CoreSession' = Core!OnNavigationStarted(CoreSession, t, url)
      BY <1>0, <1>2, <3>1, PageUrlsAssumption, SeenEvent
    <3> QED BY <1>0, <1>2, <3>2, CoreSteps
  <2>2. CASE \E url \in PageUrls : session' = OnNavigationCommitted(session, t, url)
    <3>1. PICK url \in PageUrls : session' = OnNavigationCommitted(session, t, url)
      BY <2>2
    <3>2. CoreSession' = Core!OnNavigationCommitted(CoreSession, t, url)
      BY <1>0, <1>2, <3>1, PageUrlsAssumption, SeenEvent
    <3> QED BY <1>0, <1>2, <3>2, CoreSteps
  <2>3. CASE session' = OnRendererCrashed(session, t)
    <3>1. CoreSession' = Core!OnRendererCrashed(CoreSession, t)
      BY <1>0, <1>2, <2>3, UrlsAssumption, SeenEvent
    <3> QED BY <1>0, <1>2, <3>1, CoreSteps
  <2> QED BY <1>9, <2>1, <2>2, <2>3 DEF BrowserEvent
<1>10. ASSUME NEW t \in TabIds, BrowserCreated(t) \/ BrowserGone(t) \/ PageAccepts(t) \/ PageRefuses(t)
       PROVE  CoreSession' = CoreSession
  <2>1. session' = session \/ \E e : session' = Tell(session, e)
    BY <1>10 DEF BrowserCreated, BrowserGone, PageAccepts, PageRefuses, CanClose
  <2> QED BY <1>2, <1>4, <2>1
<1>11. CASE UserClosesWindow \/ OnWindowDestroyed
  <2>1. \E e : session' = Tell(session, e)
    BY <1>11 DEF UserClosesWindow, OnWindowDestroyed, CanClose
  <2> QED BY <1>4, <2>1
<1>12. CASE UNCHANGED vars
  BY <1>2, <1>12 DEF vars
<1> QED BY <1>5, <1>6, <1>3, <1>7, <1>8, <1>9, <1>10, <1>11, <1>12 DEF Next, Shell

\* ImplementsCore: every step of the shell, of a browser and of the window is, seen from
\* the session, a step of the session over the synchronous engine of EngineContract, or
\* nothing: what is proved of that session holds of the one over Chromium.
THEOREM DesktopImplementsCore ==
  ASSUME OverCef, FreshIds, 0 < MaxActivations
  PROVE  Spec => ImplementsCore
<1> DEFINE Unstarted == window = "starting" => session.clock = 0
<1>1. Init => DesktopInv /\ Unstarted /\ Core!Init
  <2> SUFFICES ASSUME Init PROVE DesktopInv /\ Unstarted /\ Core!Init
    OBVIOUS
  <2>1. DesktopInv
    BY InitDesktop
  <2>2. session = SessionInit(CefInit)
    BY DEF Init
  <2>3. Unstarted
    BY <2>2 DEF SessionInit
  <2>4. CoreSession = Tell(session, PagesOf(session)) /\ Open(session) = {}
    BY <2>1, <2>2, CoreIsSeen, SessionInitInvariant DEF Seen
  <2>5. Core!SessionInit(ContractInit) = Tell(SessionInit(CefInit), ContractInit)
    <3> DEFINE f(x) == [tabs |-> <<>>, tab |-> [t \in TabIds |-> NoTab], active |-> NoTabId,
                        closed |-> <<>>, clock |-> 0, restored |-> 0, engine |-> x]
    <3>1. Core!NoTab = NoTab
      BY DEF Core!NoTab, NoTab
    <3>2. Core!SessionInit(ContractInit) = f(ContractInit)
      BY <3>1 DEF Core!SessionInit
    <3>3. SessionInit(CefInit) = f(CefInit)
      BY DEF SessionInit
    <3>4. Tell(f(CefInit), ContractInit) = f(ContractInit)
      BY DEF Tell
    <3> HIDE DEF f
    <3> QED BY <3>2, <3>3, <3>4
  <2>6. PagesOf(session) = ContractInit
    BY <2>2, <2>4 DEF PagesOf, ContractInit, SessionInit
  <2> QED BY <2>1, <2>2, <2>3, <2>4, <2>5, <2>6 DEF Core!Init
<1>2. DesktopInv /\ [Next]_vars => DesktopInv'
  BY NextDesktop
<1>3. DesktopInv /\ Unstarted /\ [Next]_vars => Unstarted'
  <2> SUFFICES ASSUME DesktopInv, Unstarted, [Next]_vars, window' = "starting"
               PROVE  session'.clock = 0
    OBVIOUS
  <2>1. \A t \in TabIds : window = "starting" => ~HasBrowser(session.engine, t)
                                                 /\ session.engine.phase[t] # "pending"
    BY DEF DesktopInv, ShellInv, HasBrowser
  <2>2. window = "starting" => asked = {}
    BY <2>1 DEF DesktopInv, BrowsersOf
  <2>3. window = "starting" /\ session' = session
    BY <2>1, <2>2 DEF Next, Startup, Shell, OpenNewTab, OpenNewTabForActiveWorkspace, CloseTabAction,
           Usual, external, BrowserCreated, BrowserEvent, BrowserGone, Browsers, PageAccepts,
           PageRefuses, UserClosesWindow, CanClose, OnWindowDestroyed, engine, vars
  <2> QED BY <2>3
<1>4. DesktopInv /\ Unstarted /\ [Next]_vars => [Core!Next]_CoreSession
  BY DesktopStepImplements
<1>5. Spec => Core!Init /\ [][Core!Next]_CoreSession
  BY <1>1, <1>2, <1>3, <1>4, PTL DEF Spec
<1> QED BY <1>5 DEF ImplementsCore, Core!Spec
=============================================================================
