------------------------- MODULE SessionInvariants -------------------------
(***************************************************************************)
(* What is true of a session between two calls, whoever makes the calls.   *)
(* The predicates take the session as a parameter, because every component *)
(* that composes with it keeps one.                                        *)
(***************************************************************************)
EXTENDS SessionOps

\* No id names two tabs: FindTab is unambiguous whatever ids callers, restores and
\* reopenings bring (the duplicate check of OpenTab).
HasUniqueIds(s) == \A i, j \in DOMAIN s.tabs : s.tabs[i] = s.tabs[j] => i = j

\* active_tab_id_ names an open tab, and that tab and no other is Active.
HasOneActive(s) ==
  \A t \in TabIds : (IsOpen(s, t) /\ s.tab[t].life = "Active") <=> s.active = t

\* Activation numbers come from the counter, and the active tab has the largest.
HasActivationOrder(s) ==
  \A t \in Open(s) :
    /\ s.tab[t].seq <= s.clock
    /\ s.active = t => s.tab[t].seq > 0
    /\ s.active \notin {t, NoTabId} => s.tab[t].seq < s.tab[s.active].seq

\* The status fields of a tab do not contradict each other.
IsCoherent(tab) ==
  /\ tab.url # NoUrl
  /\ tab.nav = "Idle" => tab.committed /\ tab.pending = NoUrl
  /\ tab.nav \in {"Requested", "Loading"} => tab.pending # NoUrl
  /\ tab.error <=> tab.nav = "Failed"
  /\ tab.crashed => tab.nav = "Failed"
HasCoherentTabs(s) == \A t \in Open(s) : IsCoherent(s.tab[t])

\* closed_tabs_ stays within its capacity and holds no new-tab page.
HasSoundClosedList(s) ==
  /\ Len(s.closed) <= MaxClosed
  /\ \A k \in DOMAIN s.closed : ~IsBlankOrNewTabUrl(s.closed[k].url)

SessionInvariant(s) ==
  /\ IsSession(s)
  /\ HasUniqueIds(s)
  /\ HasOneActive(s)
  /\ HasActivationOrder(s)
  /\ HasCoherentTabs(s)
  /\ HasSoundClosedList(s)
=============================================================================
