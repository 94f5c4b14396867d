----------------------------- MODULE SessionOps -----------------------------
(***************************************************************************)
(* core::BrowserSession (src/src/core/session/browser_session.cpp) as      *)
(* operators on its state, so that the components that call it (privacy    *)
(* orchestrator, focus queue, tab strip, session restore) can be composed  *)
(* with it: one C++ member function is one operator from a session to the  *)
(* session it leaves, and a rejected call leaves the session as it was.    *)
(*                                                                         *)
(* A session is a record                                                   *)
(*   tabs      tabs_, as the sequence of its ids                           *)
(*   tab       the fields of each tab, NoTab for an id that is not open    *)
(*   active    active_tab_id_                                              *)
(*   closed    closed_tabs_, oldest first                                  *)
(*   clock     last_activated_counter_                                     *)
(*   restored  restored_counter_                                           *)
(*   engine    the engine behind the interface, changed by its commands    *)
(***************************************************************************)
EXTENDS TabTypes, SeqFilter, SequencesExt

CONSTANTS
  Urls,               \* addresses; the three named ones below are among them
  NewTabUrl,          \* navigation::kNewTabUrl
  PrivateNewTabUrl,   \* navigation::kPrivateNewTabUrl, about:blank
  LegacyUrl,          \* navigation::kLegacyNewTabPlaceholderUrl, https://example.com/
  NoUrl,              \* no pending address
  MaxClosed,          \* capacity of closed_tabs_, 25 in the code
  RestoredId,         \* RestoredId[n] is "restored-n"
  EngineCreate(_, _, _), EngineClose(_, _), EngineActivate(_, _),
  EngineSuspend(_, _), EngineResume(_, _), EngineNavigate(_, _, _)

ASSUME UrlsAssumption ==
  /\ {NewTabUrl, PrivateNewTabUrl, LegacyUrl} \subseteq Urls
  /\ NoUrl \notin Urls
ASSUME MaxClosedAssumption == MaxClosed \in Nat
ASSUME RestoredIdAssumption == \A n \in DOMAIN RestoredId : RestoredId[n] \in TabIds

Lifecycles == {"Active", "Background", "Suspended", "Discarded"}
NavStates == {"Idle", "Requested", "Loading", "Failed"}
ClosedModes == {"PersistentOnly", "EphemeralOnly", "Any"}

\* "placeholder" stands for the titles New Tab, New tab and Private Tab.
Titles == {"placeholder", "page"}

\* The part of a tab its opener chooses, and what a closed tab is remembered by.
Templates == [url: Urls, title: Titles, eph: BOOLEAN]

TabRecords ==
  [url: Urls \cup {NoUrl}, title: Titles, eph: BOOLEAN, life: Lifecycles,
   nav: NavStates, pending: Urls \cup {NoUrl}, error: BOOLEAN, crashed: BOOLEAN,
   committed: BOOLEAN, seq: Nat]

NoTab ==
  [url |-> NoUrl, title |-> "page", eph |-> FALSE, life |-> "Background",
   nav |-> "Idle", pending |-> NoUrl, error |-> FALSE, crashed |-> FALSE,
   committed |-> FALSE, seq |-> 0]

\* The engine behind the interface is any value at all.
IsSession(s) ==
  s \in [tabs: Seq(TabIds), tab: [TabIds -> TabRecords], active: TabIds \cup {NoTabId},
         closed: Seq(Templates), clock: Nat, restored: Nat, engine: {s.engine}]

SessionInit(engine) ==
  [tabs |-> <<>>, tab |-> [t \in TabIds |-> NoTab], active |-> NoTabId,
   closed |-> <<>>, clock |-> 0, restored |-> 0, engine |-> engine]

IsBlankOrNewTabUrl(url) == url \in {PrivateNewTabUrl, NewTabUrl}

Open(s) == {s.tabs[i] : i \in DOMAIN s.tabs}
IsOpen(s, t) == t \in Open(s)
Alive(s, t) == IsOpen(s, t) /\ s.tab[t].life # "Discarded"
IndexOf(s, t) == CHOOSE i \in DOMAIN s.tabs : s.tabs[i] = t

WithTab(s, t, rec) == [s EXCEPT !.tab[t] = rec]
Tell(s, engine) == [s EXCEPT !.engine = engine]

-----------------------------------------------------------------------------
IsLegacySyntheticNewTab(tpl) == tpl.url = LegacyUrl /\ tpl.title = "placeholder"

\* A legacy call site's placeholder becomes the new-tab page it stood for.
Normalised(tpl) ==
  IF ~IsLegacySyntheticNewTab(tpl) THEN tpl
  ELSE [tpl EXCEPT !.url = IF tpl.eph THEN PrivateNewTabUrl ELSE NewTabUrl]

FreshTab(tpl) ==
  [url |-> tpl.url, title |-> tpl.title, eph |-> tpl.eph, life |-> "Background",
   nav |-> "Requested", pending |-> tpl.url, error |-> FALSE, crashed |-> FALSE,
   committed |-> FALSE, seq |-> 0]

\* Mutant: the previous active tab is left Active.
DemoteNothing(s) == s

DemoteActiveTab(s) ==
  IF s.active # NoTabId /\ IsOpen(s, s.active) /\ s.tab[s.active].life = "Active"
    THEN WithTab(s, s.active, [s.tab[s.active] EXCEPT !.life = "Background"])
    ELSE s

\* The fields every activation writes.
MarkActive(s, t) ==
  [WithTab(s, t, [s.tab[t] EXCEPT !.life = "Active", !.seq = s.clock + 1])
     EXCEPT !.clock = s.clock + 1, !.active = t]

AcceptsId(s, t) == ~IsOpen(s, t)

\* Bring an open tab to the front.
Raise(s, t) ==
  LET raised == MarkActive(DemoteActiveTab(s), t)
  IN  Tell(raised, EngineActivate(raised.engine, t))

AddTab(s, t, tpl) ==
  [s EXCEPT !.tabs = Append(@, t), !.tab[t] = FreshTab(tpl),
            !.engine = EngineCreate(@, t, FreshTab(tpl))]

OpenTab(s, t, tpl, activate) ==
  LET added == AddTab(s, t, Normalised(tpl))
  IN  IF ~AcceptsId(s, t) THEN s
      ELSE IF s.tabs = <<>> \/ activate THEN Raise(added, t) ELSE added

\* ActivateTab gives a discarded tab a new page and wakes a suspended one.
Revived(s, t) ==
  CASE s.tab[t].life = "Discarded" -> Tell(s, EngineCreate(s.engine, t, s.tab[t]))
    [] s.tab[t].life = "Suspended" -> Tell(s, EngineResume(s.engine, t))
    [] OTHER -> s

ActivateTab(s, t) ==
  IF ~IsOpen(s, t) \/ s.active = t THEN s ELSE Raise(Revived(s, t), t)

-----------------------------------------------------------------------------
\* The k-th index ActivateAfterClose looks at: the closed position (or the new
\* last one), then leftwards, wrapping round.
ScanIndex(n, start, k) == ((start - 1 + n - k) % n) + 1

\* Mutant: the neighbour takes over even when it is discarded.
SuccessorIsNeighbour(s, rest, i) == rest[IF i <= Len(rest) THEN i ELSE Len(rest)]

\* The tab that takes over when the tab at position i closed and left `rest`.
Successor(s, rest, i) ==
  LET n     == Len(rest)
      start == IF i <= n THEN i ELSE n
      awake == {k \in 0 .. n - 1 : s.tab[rest[ScanIndex(n, start, k)]].life # "Discarded"}
  IN  IF awake = {} THEN rest[start]
      ELSE rest[ScanIndex(n, start, CHOOSE k \in awake : \A j \in awake : k <= j)]

ActivateAfterClose(s, i) ==
  IF s.tabs = <<>> THEN s ELSE ActivateTab(s, Successor(s, s.tabs, i))

Remembered(closed, rec) ==
  LET all == Append(closed, rec) IN IF Len(all) > MaxClosed THEN Tail(all) ELSE all

ClosedRecord(tab) == [url |-> tab.url, title |-> tab.title, eph |-> tab.eph]

RememberClosed(s, t) ==
  IF IsBlankOrNewTabUrl(s.tab[t].url) THEN s
  ELSE [s EXCEPT !.closed = Remembered(@, ClosedRecord(s.tab[t]))]

RemoveTab(s, t) ==
  [s EXCEPT !.engine = EngineClose(@, t), !.tabs = RemoveAt(@, IndexOf(s, t)),
            !.tab[t] = NoTab, !.active = IF @ = t THEN NoTabId ELSE @]

\* fallback: ActivateFallback or DoNotActivateFallback.
CloseTab(s, t, fallback) ==
  LET gone == RemoveTab(RememberClosed(s, t), t)
  IN  IF ~IsOpen(s, t) THEN s
      ELSE IF s.active = t /\ fallback THEN ActivateAfterClose(gone, IndexOf(s, t))
      ELSE gone

\* Positions of the closed tabs that a mode may bring back.
Reopenable(s, mode) ==
  {k \in DOMAIN s.closed :
     CASE mode = "PersistentOnly" -> ~s.closed[k].eph
       [] mode = "EphemeralOnly" -> s.closed[k].eph
       [] OTHER -> TRUE}

\* Mutant: the search runs from the oldest record.
OldestReopenable(s, mode) ==
  CHOOSE k \in Reopenable(s, mode) : \A j \in Reopenable(s, mode) : j >= k

NewestReopenable(s, mode) ==
  CHOOSE k \in Reopenable(s, mode) : \A j \in Reopenable(s, mode) : j <= k

\* The record leaves the list before OpenTab has accepted the new id.
ReopenLastClosedTab(s, mode) ==
  LET k   == NewestReopenable(s, mode)
      rec == s.closed[k]
  IN  IF Reopenable(s, mode) = {} THEN s
      ELSE OpenTab([s EXCEPT !.closed = RemoveAt(@, k), !.restored = @ + 1],
                   RestoredId[s.restored + 1], rec, TRUE)

PurgeEphemeralClosedTabs(s) ==
  [s EXCEPT !.closed = Kept(@, {rec \in Templates : ~rec.eph})]

\* The tab CycleTab activates among the visible ones.
CycleTarget(s, visible, forward) ==
  LET seen == Kept(s.tabs, visible)
      n    == Len(seen)
      here == {i \in DOMAIN seen : seen[i] = s.active}
      i    == CHOOSE i \in here : TRUE
  IN  CASE here = {} -> seen[1]
        [] here # {} /\ forward -> seen[(i % n) + 1]
        [] OTHER -> seen[((i + n - 2) % n) + 1]

CycleTab(s, visible, forward) ==
  IF Open(s) \cap visible = {} THEN s ELSE ActivateTab(s, CycleTarget(s, visible, forward))

-----------------------------------------------------------------------------
\* A navigation command wakes a suspended tab; it stays in the background.
Woken(s, t) ==
  IF s.tab[t].life = "Suspended"
    THEN Tell(WithTab(s, t, [s.tab[t] EXCEPT !.life = "Background"]),
              EngineResume(s.engine, t))
    ELSE s

Requested(tab, url) ==
  [tab EXCEPT !.pending = url, !.nav = "Requested", !.error = FALSE, !.crashed = FALSE]

Navigate(s, t, url) ==
  LET awake == Woken(s, t)
  IN  IF ~Alive(s, t) THEN s
      ELSE Tell(WithTab(awake, t, Requested(awake.tab[t], url)),
                EngineNavigate(awake.engine, t, url))

\* GoBack, GoForward and Reload: the session keeps the page's state and waits for
\* the engine's events.
NavigationCommand(s, t) == IF ~Alive(s, t) THEN s ELSE Woken(s, t)

SuspendTab(s, t) ==
  IF ~Alive(s, t) \/ s.tab[t].life \in {"Active", "Suspended"} THEN s
  ELSE Tell(WithTab(s, t, [s.tab[t] EXCEPT !.life = "Suspended"]),
            EngineSuspend(s.engine, t))

ResumeTab(s, t) == IF ~Alive(s, t) THEN s ELSE Woken(s, t)

\* Mutant: the page is left running behind a discarded tab.
DiscardKeepsSurface(s, t) ==
  IF ~Alive(s, t) \/ s.tab[t].life = "Active" THEN s
  ELSE WithTab(s, t, [s.tab[t] EXCEPT !.life = "Discarded"])

DiscardTab(s, t) ==
  IF ~Alive(s, t) \/ s.tab[t].life = "Active" THEN s
  ELSE Tell(WithTab(s, t, [s.tab[t] EXCEPT !.life = "Discarded"]),
            EngineClose(s.engine, t))

-----------------------------------------------------------------------------
\* The engine's events; one about a closed or discarded tab is ignored.
OnNavigationStarted(s, t, url) ==
  IF ~Alive(s, t) THEN s
  ELSE WithTab(s, t, [s.tab[t] EXCEPT !.pending = url, !.nav = "Loading",
                                      !.error = FALSE, !.crashed = FALSE])

CommittedTab(tab, url) ==
  [tab EXCEPT !.url = url, !.pending = NoUrl, !.nav = "Idle", !.error = FALSE,
              !.crashed = FALSE, !.committed = TRUE]

\* Mutant: an event about a discarded tab is let through.
CommittedEvenIfDiscarded(s, t, url) ==
  IF ~IsOpen(s, t) THEN s ELSE WithTab(s, t, CommittedTab(s.tab[t], url))

OnNavigationCommitted(s, t, url) ==
  IF ~Alive(s, t) THEN s ELSE WithTab(s, t, CommittedTab(s.tab[t], url))

OnNavigationFailed(s, t, url) ==
  IF ~Alive(s, t) THEN s
  ELSE WithTab(s, t, [s.tab[t] EXCEPT !.pending = url, !.nav = "Failed",
                                      !.error = TRUE, !.crashed = FALSE])

OnTitleChanged(s, t, title) ==
  IF ~Alive(s, t) THEN s ELSE WithTab(s, t, [s.tab[t] EXCEPT !.title = title])

OnRendererCrashed(s, t) ==
  IF ~Alive(s, t) THEN s
  ELSE WithTab(s, t, [s.tab[t] EXCEPT !.crashed = TRUE, !.nav = "Failed", !.error = TRUE])
=============================================================================
