-------------------------- MODULE MCBrowserSession --------------------------
(* BrowserSession over the synchronous engine of EngineContract. *)
EXTENDS SessionOverContract

CONSTANTS a, b, r1, u, v, ntp, blank, example
MCRestoredId == <<r1>>
MCEngineInit == ContractInit

\* The shell's ids differ in nothing but their names.
MCSymmetry == Permutations({a, b})

AtMostOne(S) == \A x, y \in S : x = y
UnderWay(tab) == tab.nav \in {"Loading", "Failed"} \/ (tab.nav = "Requested" /\ tab.committed)

\* Bound: nothing in the code relates the status and the address of one tab to those of
\* another, so one tab at a time is under way, none when all three are open, and one is
\* at the second address.
MCFewBusyTabs ==
  /\ AtMostOne({t \in Open(session) : UnderWay(session.tab[t])})
  /\ Len(session.tabs) = 3 => \A t \in Open(session) : ~UnderWay(session.tab[t])
  /\ AtMostOne({t \in Open(session) : v \in {session.tab[t].url, session.tab[t].pending}})
=============================================================================
