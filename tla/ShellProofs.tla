----------------------------- MODULE ShellProofs -----------------------------
(***************************************************************************)
(* Proofs about the shell around the page.                                 *)
(*                                                                         *)
(* Focus mode: the records of a focus sprint agree, and the bars it took   *)
(* away come back.  There is one lemma for each member function of the     *)
(* sidebar, which says what it does to a state whose records agree.        *)
(*                                                                         *)
(* Workspaces: tab and workspace go together.  BrowserSafe is what holds   *)
(* between calls, Ready what a call leaves for the observers, Base what    *)
(* holds in between as well; there is one lemma for each call.             *)
(*                                                                         *)
(* The Network Lab: the panel shows what it would build, a recording       *)
(* misses no event, and the rows tell what became of their requests.       *)
(***************************************************************************)
EXTENDS FocusMode, Workspaces, NetworkTrace, SequenceLemmas, FiniteSetTheorems

UiRecords ==
  [sprint: SprintStates, left: 0 .. Duration, timer: BOOLEAN, due: [0 .. 2 -> Nat],
   compact: BOOLEAN, notified: BOOLEAN, open: [Panels -> BOOLEAN],
   active: Panels \cup {"None"}, focused: BOOLEAN,
   chrome: [Bars -> BOOLEAN], before: [Bars -> BOOLEAN]]

Running(u) == u.sprint = "Running"

\* The drawer that is named is open, and no two drawers other than Focus are.
OneDrawer(u) ==
  /\ u.active # "None" => u.open[u.active]
  /\ \A p, q \in Drawers : u.open[p] /\ u.open[q] => p = q

\* The sprint and what follows it; a paused one has time left for its resumption.
SprintRecordsAgree(u) ==
  /\ u \in UiRecords
  /\ (u.timer <=> Running(u)) /\ (u.notified <=> Running(u)) /\ (u.focused <=> Running(u))
  /\ Running(u) => u.open["Focus"] /\ Ticks(u) > 0
  /\ u.sprint \in {"Running", "Paused"} => u.left > 0
  /\ OneDrawer(u)

SameSprint(u, v) == v.sprint = u.sprint /\ v.left = u.left /\ v.timer = u.timer /\ v.due = u.due
SameChrome(u, v) ==
  v.notified = u.notified /\ v.focused = u.focused /\ v.chrome = u.chrome /\ v.before = u.before

\* The bars go away as they are and come back as they were.
BarsKept(u, v) ==
  /\ u.focused => v.before = u.before
  /\ ~u.focused /\ v.focused => v.before = u.chrome
  /\ u.focused /\ ~v.focused => v.chrome = u.before

LEMMA FocusConstants ==
  /\ {"Settings", "NetworkLab"} \subseteq Drawers /\ Drawers \cap {"Focus", "None"} = {}
  /\ Duration \in Nat \ {0} /\ MaxPresses \in Nat /\ MaxTicks \in Nat
BY DrawersAssumption, DurationAssumption, BoundsAssumption

LEMMA FocusIsAPanel ==
  /\ "Focus" \in Panels /\ "Focus" \notin Drawers /\ "None" \notin Panels
  /\ Drawers \in SUBSET Panels /\ Panels = Drawers \cup {"Focus"}
BY FocusConstants DEF Panels

\* Drawers appear and go without touching the sprint or the bars.
LEMMA PanelShown ==
  ASSUME NEW u \in UiRecords, OneDrawer(u), NEW p \in Panels,
         NEW b \in BOOLEAN,
         b => p = "Focus" \/ \A q \in Drawers : ~u.open[q]
  PROVE  LET v == SetVisible(u, p, b)
         IN  /\ v \in UiRecords /\ SameSprint(u, v) /\ SameChrome(u, v) /\ OneDrawer(v)
             /\ v.open = [u.open EXCEPT ![p] = b]
<1> DEFINE o == [u.open EXCEPT ![p] = b]
           a == IF b THEN p ELSE IF u.active = p THEN "None" ELSE u.active
           v == SetVisible(u, p, b)
<1>1. /\ o \in [Panels -> BOOLEAN] /\ o[p] = b
      /\ \A q \in Panels \ {p} : o[q] = u.open[q]
      /\ u.open[p] = b => o = u.open
  BY DEF UiRecords
<1>2. a \in Panels \cup {"None"}
  BY DEF UiRecords
<1>3. v = IF u.open[p] = b THEN u ELSE [u EXCEPT !.open = o, !.active = a]
  BY DEF SetVisible, VisibilityChanged, UiRecords
<1> HIDE DEF o
<1>4. CASE u.open[p] = b
  BY <1>1, <1>3, <1>4 DEF SameSprint, SameChrome
<1>5. CASE u.open[p] # b
  <2> HIDE DEF a
  <2>0. v = [u EXCEPT !.open = o, !.active = a]
    BY <1>3, <1>5
  <2>1. v \in UiRecords /\ SameSprint(u, v) /\ SameChrome(u, v) /\ v.open = o /\ v.active = a
    <3> HIDE DEF v
    <3> QED BY <1>1, <1>2, <2>0 DEF UiRecords, SameSprint, SameChrome
  <2>2. a # "None" => o[a]
    BY <1>1, FocusIsAPanel DEF OneDrawer, a, UiRecords
  <2>3. \A q, r \in Drawers : o[q] /\ o[r] => q = r
    BY <1>1, FocusIsAPanel DEF OneDrawer
  <2> HIDE DEF v
  <2>4. OneDrawer(v)
    BY <2>1, <2>2, <2>3 DEF OneDrawer
  <2> QED BY <2>1, <2>4 DEF v, o
<1> QED BY <1>4, <1>5

LEMMA FocusShown ==
  ASSUME NEW u \in UiRecords, OneDrawer(u)
  PROVE  LET v == ShowFocus(u)
         IN  /\ v \in UiRecords /\ SameSprint(u, v) /\ SameChrome(u, v) /\ OneDrawer(v)
             /\ v.open["Focus"]
<1> DEFINE w == SetVisible(u, "Focus", TRUE)
           v == ShowFocus(u)
<1>1. PICK b \in BOOLEAN : b = TRUE
  OBVIOUS
<1>2. /\ w \in UiRecords /\ SameSprint(u, w) /\ SameChrome(u, w) /\ OneDrawer(w)
      /\ w.open = [u.open EXCEPT !["Focus"] = TRUE]
  <2> DEFINE x == SetVisible(u, "Focus", b)
  <2>1. /\ x \in UiRecords /\ SameSprint(u, x) /\ SameChrome(u, x) /\ OneDrawer(x)
        /\ x.open = [u.open EXCEPT !["Focus"] = b]
    BY <1>1, PanelShown, FocusIsAPanel
  <2> QED BY <1>1, <2>1
<1>4. v = [w EXCEPT !.compact = FALSE]
  BY DEF ShowFocus
<1> HIDE DEF w
<1>3. w.open["Focus"]
  BY <1>2, FocusIsAPanel DEF UiRecords
<1>5. /\ v \in UiRecords /\ v.open = w.open /\ v.active = w.active
      /\ SameSprint(w, v) /\ SameChrome(w, v)
  BY <1>2, <1>4 DEF UiRecords, SameSprint, SameChrome
<1> HIDE DEF v
<1>6. SameSprint(u, v) /\ SameChrome(u, v) /\ OneDrawer(v)
  BY <1>2, <1>5 DEF SameSprint, SameChrome, OneDrawer
<1> QED BY <1>3, <1>5, <1>6 DEF v

LEMMA PanelsHidden ==
  ASSUME NEW u \in UiRecords
  PROVE  LET v == HideTransientPanels(u)
         IN  /\ v \in UiRecords /\ SameSprint(u, v) /\ SameChrome(u, v) /\ OneDrawer(v)
             /\ v.active = "None" /\ \A p \in Panels : v.open[p] <=> p = "Focus" /\ Running(u)
<1> DEFINE o == [p \in Panels |-> p = "Focus" /\ Running(u)]
           c == u.compact \/ Running(u)
           v == HideTransientPanels(u)
<1>1. o \in [Panels -> BOOLEAN] /\ c \in BOOLEAN
  OBVIOUS
<1>2. \A p \in Panels : o[p] <=> p = "Focus" /\ Running(u)
  OBVIOUS
<1>3. v = [u EXCEPT !.open = o, !.compact = c, !.active = "None"]
  BY DEF HideTransientPanels, IsFocusModeActive, Running
<1> HIDE DEF o, c
<1>4. /\ v \in UiRecords /\ SameSprint(u, v) /\ SameChrome(u, v) /\ v.open = o
      /\ v.active = "None"
  BY <1>1, <1>3 DEF UiRecords, SameSprint, SameChrome
<1> HIDE DEF v
<1>5. OneDrawer(v)
  BY <1>2, <1>4, FocusIsAPanel DEF OneDrawer
<1> QED BY <1>2, <1>4, <1>5 DEF v

LEMMA PanelToggled ==
  ASSUME NEW u \in UiRecords, OneDrawer(u), NEW p \in Panels
  PROVE  LET v == ToggleTransientPanel(u, p)
         IN  /\ v \in UiRecords /\ SameSprint(u, v) /\ SameChrome(u, v) /\ OneDrawer(v)
             /\ Running(u) => v.open["Focus"]
<1> DEFINE h == HideTransientPanels(u)
           v == ToggleTransientPanel(u, p)
           s == IF p = "Focus" THEN ShowFocus(h) ELSE SetVisible(h, p, TRUE)
<1>1. /\ h \in UiRecords /\ SameSprint(u, h) /\ SameChrome(u, h) /\ OneDrawer(h)
      /\ \A q \in Panels : h.open[q] <=> q = "Focus" /\ Running(u)
  BY PanelsHidden
<1>2. v = IF u.open[p] THEN h ELSE [s EXCEPT !.active = p]
  BY DEF ToggleTransientPanel
<1> HIDE DEF h
<1>3. CASE u.open[p]
  BY <1>1, <1>2, <1>3, FocusIsAPanel
<1>4. CASE ~u.open[p]
  <2>1. /\ s \in UiRecords /\ SameSprint(h, s) /\ SameChrome(h, s) /\ OneDrawer(s)
        /\ s.open[p] /\ (Running(u) => s.open["Focus"])
    <3>1. CASE p = "Focus"
      BY <1>1, <3>1, FocusShown
    <3>2. CASE p # "Focus"
      <4>1. PICK b \in BOOLEAN : b = TRUE
        OBVIOUS
      <4> DEFINE x == SetVisible(h, p, b)
      <4>2. \A q \in Drawers : ~h.open[q]
        BY <1>1, FocusIsAPanel
      <4>3. /\ x \in UiRecords /\ SameSprint(h, x) /\ SameChrome(h, x) /\ OneDrawer(x)
            /\ x.open = [h.open EXCEPT ![p] = b]
        BY <1>1, <4>2, PanelShown
      <4>4. x = s
        BY <3>2, <4>1
      <4> HIDE DEF x, s
      <4>5. s.open[p] /\ (Running(u) => s.open["Focus"])
        BY <1>1, <3>2, <4>1, <4>3, <4>4, FocusIsAPanel DEF UiRecords
      <4> QED BY <4>3, <4>4, <4>5
    <3> QED BY <3>1, <3>2
  <2>2. v = [s EXCEPT !.active = p]
    BY <1>2, <1>4
  <2> HIDE DEF s
  <2>3. /\ v \in UiRecords /\ v.open = s.open /\ v.active = p
        /\ SameSprint(s, v) /\ SameChrome(s, v)
    BY <2>1, <2>2 DEF UiRecords, SameSprint, SameChrome
  <2> HIDE DEF v
  <2>4. SameSprint(u, v) /\ SameChrome(u, v) /\ OneDrawer(v)
    BY <1>1, <2>1, <2>3 DEF SameSprint, SameChrome, OneDrawer
  <2> QED BY <2>1, <2>3, <2>4 DEF v
<1> QED BY <1>3, <1>4
-----------------------------------------------------------------------------
\* The bars follow the sprint.
LEMMA ChromeNotified ==
  ASSUME NEW u \in UiRecords, OneDrawer(u), u.notified <=> u.focused,
         NEW e \in BOOLEAN, e => Running(u) /\ u.open["Focus"]
  PROVE  LET v == NotifyFocusModeChanged(u, e)
         IN  /\ v \in UiRecords /\ SameSprint(u, v) /\ OneDrawer(v) /\ BarsKept(u, v)
             /\ (v.notified <=> e) /\ (v.focused <=> e)
             /\ e => v.open["Focus"]
<1> DEFINE v == NotifyFocusModeChanged(u, e)
           n == [u EXCEPT !.notified = e]
<1>1. CASE u.notified = e
  <2>1. v = u
    BY <1>1 DEF NotifyFocusModeChanged
  <2>2. (u.notified <=> e) /\ (u.focused <=> e)
    BY <1>1 DEF UiRecords
  <2> HIDE DEF v
  <2>3. SameSprint(u, v) /\ BarsKept(u, v)
    BY <2>1 DEF SameSprint, BarsKept
  <2> QED BY <2>1, <2>2, <2>3 DEF v
<1>2. CASE u.notified # e
  <2>1. v = IF n.focused = e THEN n ELSE IF e THEN RetractChrome(n) ELSE RestoreChrome(n)
    BY <1>2 DEF NotifyFocusModeChanged, ApplyFocusChromeState
  <2>2. /\ n \in UiRecords /\ SameSprint(u, n) /\ n.notified = e
        /\ n.focused = u.focused /\ n.chrome = u.chrome /\ n.before = u.before
        /\ n.open = u.open /\ n.active = u.active
    BY DEF UiRecords, SameSprint
  <2>3. (e <=> ~u.notified) /\ (u.focused <=> ~e) /\ n.focused # e
    BY <1>2, <2>2 DEF UiRecords
  <2> HIDE DEF n
  <2>4. CASE e
    <3> DEFINE none == [b \in Bars |-> FALSE]
               w == [n EXCEPT !.focused = TRUE, !.before = n.chrome, !.chrome = none]
    <3>1. v = HideTransientPanels(w)
      BY <2>1, <2>3, <2>4 DEF RetractChrome
    <3>2. none \in [Bars -> BOOLEAN]
      OBVIOUS
    <3> HIDE DEF none
    <3>3. /\ w \in UiRecords /\ SameSprint(n, w) /\ w.notified = e /\ w.focused
          /\ w.before = n.chrome
      BY <2>2, <3>2 DEF UiRecords, SameSprint
    <3> HIDE DEF w, v
    <3>4. /\ v \in UiRecords /\ SameSprint(w, v) /\ SameChrome(w, v) /\ OneDrawer(v)
          /\ \A p \in Panels : v.open[p] <=> p = "Focus" /\ Running(w)
      BY <3>1, <3>3, PanelsHidden
    <3>5. SameSprint(u, v) /\ Running(w)
      BY <2>2, <2>4, <3>3, <3>4 DEF SameSprint, Running
    <3>6. v.open["Focus"]
      BY <3>4, <3>5, FocusIsAPanel
    <3>7. (v.notified <=> e) /\ (v.focused <=> e) /\ v.before = u.chrome
      BY <2>2, <2>4, <3>3, <3>4 DEF SameChrome
    <3>8. BarsKept(u, v)
      BY <2>3, <2>4, <3>7 DEF BarsKept
    <3> QED BY <3>4, <3>5, <3>6, <3>7, <3>8 DEF v
  <2>5. CASE ~e
    <3>1. v = [n EXCEPT !.focused = FALSE, !.chrome = n.before]
      BY <2>1, <2>3, <2>5 DEF RestoreChrome
    <3> HIDE DEF v
    <3>2. /\ v \in UiRecords /\ SameSprint(n, v) /\ v.notified = e /\ v.focused = FALSE
          /\ v.chrome = n.before /\ v.before = n.before /\ v.open = n.open /\ v.active = n.active
      BY <2>2, <3>1 DEF UiRecords, SameSprint
    <3>3. SameSprint(u, v) /\ OneDrawer(v)
      BY <2>2, <3>2 DEF SameSprint, OneDrawer
    <3>4. BarsKept(u, v) /\ (v.notified <=> e) /\ (v.focused <=> e)
      BY <2>2, <2>5, <3>2 DEF BarsKept
    <3> QED BY <2>5, <3>2, <3>3, <3>4 DEF v
  <2> QED BY <2>4, <2>5
<1> QED BY <1>1, <1>2

\* The bars are kept over a step in two parts, of which the first leaves them alone.
LEMMA BarsKeptLater ==
  ASSUME NEW u, NEW w, NEW v, SameChrome(u, w), BarsKept(w, v)
  PROVE  BarsKept(u, v)
BY DEF SameChrome, BarsKept

LEMMA TicksOf ==
  ASSUME NEW u \in UiRecords
  PROVE  Ticks(u) \in Nat /\ u.due[0] \in Nat /\ u.due[1] \in Nat /\ u.due[2] \in Nat
BY DEF UiRecords, Ticks

LEMMA TickScheduled ==
  ASSUME NEW u \in UiRecords, OneDrawer(u)
  PROVE  LET v == ScheduleTimerTick(u)
         IN  /\ v \in UiRecords /\ OneDrawer(v) /\ SameChrome(u, v) /\ v.open = u.open
             /\ v.sprint = u.sprint /\ v.left = u.left /\ v.timer = u.timer
             /\ Ticks(v) = Ticks(u) + IF u.timer THEN 1 ELSE 0
<1> DEFINE d == [u.due EXCEPT ![2] = u.due[2] + 1]
           v == ScheduleTimerTick(u)
<1>1. /\ d \in [0 .. 2 -> Nat] /\ d[0] + d[1] + d[2] = Ticks(u) + 1
  BY DEF UiRecords, Ticks
<1>2. v = IF u.timer THEN [u EXCEPT !.due = d] ELSE u
  BY DEF ScheduleTimerTick
<1>3. Ticks(u) \in Nat
  BY TicksOf
<1> HIDE DEF d, v
<1>4. CASE u.timer
  <2>1. /\ v \in UiRecords /\ v.open = u.open /\ v.active = u.active /\ v.due = d
        /\ v.sprint = u.sprint /\ v.left = u.left /\ v.timer = u.timer /\ SameChrome(u, v)
    BY <1>1, <1>2, <1>4 DEF UiRecords, SameChrome
  <2>2. Ticks(v) = Ticks(u) + 1
    BY <1>1, <2>1 DEF Ticks
  <2>3. OneDrawer(v)
    BY <2>1 DEF OneDrawer
  <2> QED BY <1>4, <2>1, <2>2, <2>3 DEF v
<1>5. CASE ~u.timer
  BY <1>2, <1>3, <1>5 DEF v, SameChrome
<1> QED BY <1>4, <1>5
-----------------------------------------------------------------------------
\* The buttons and the timer.
LEMMA SprintStarts ==
  ASSUME NEW u, SprintRecordsAgree(u)
  PROVE  LET v == StartSprint(u)
         IN  /\ SprintRecordsAgree(v) /\ BarsKept(u, v)
             /\ Ticks(v) = Ticks(u) + 1
<1> DEFINE left == IF u.sprint = "Paused" THEN u.left ELSE Duration
           w == [u EXCEPT !.sprint = "Running", !.left = left, !.timer = TRUE]
           f == ShowFocus(w)
           shown == [f EXCEPT !.compact = TRUE]
           n == NotifyFocusModeChanged(shown, TRUE)
           v == StartSprint(u)
<1>1. u \in UiRecords /\ OneDrawer(u) /\ (u.notified <=> u.focused)
  BY DEF SprintRecordsAgree
<1>2. left \in 0 .. Duration /\ left > 0
  BY <1>1, FocusConstants DEF SprintRecordsAgree, UiRecords
<1>3. v = ScheduleTimerTick(n)
  <2>1. [SprintStarted(u) EXCEPT !.timer = TRUE] = w
    <3>1. CASE u.sprint = "Paused"
      BY <1>1, <3>1 DEF SprintStarted, UiRecords
    <3>2. CASE u.sprint # "Paused"
      BY <1>1, <3>2 DEF SprintStarted, UiRecords
    <3> QED BY <3>1, <3>2
  <2> HIDE DEF w
  <2> QED BY <2>1 DEF StartSprint
<1> HIDE DEF left, v
<1>4. /\ w \in UiRecords /\ SameChrome(u, w) /\ w.open = u.open /\ w.active = u.active
      /\ w.sprint = "Running" /\ w.left = left /\ w.timer /\ w.due = u.due
  BY <1>1, <1>2 DEF UiRecords, SameChrome, SprintStates
<1>5. OneDrawer(w)
  BY <1>1, <1>4 DEF OneDrawer
<1> HIDE DEF w
<1>6. /\ f \in UiRecords /\ SameSprint(w, f) /\ SameChrome(w, f) /\ OneDrawer(f)
      /\ f.open["Focus"]
  BY <1>4, <1>5, FocusShown
<1> HIDE DEF f
<1>7. /\ shown \in UiRecords /\ SameSprint(f, shown) /\ SameChrome(f, shown)
      /\ shown.open = f.open /\ shown.active = f.active
  BY <1>6 DEF UiRecords, SameSprint, SameChrome
<1>8. OneDrawer(shown)
  BY <1>6, <1>7 DEF OneDrawer
<1>9. SameChrome(u, shown) /\ SameSprint(w, shown)
  BY <1>4, <1>6, <1>7 DEF SameChrome, SameSprint
<1> HIDE DEF shown
<1>10. (shown.notified <=> shown.focused) /\ Running(shown) /\ shown.open["Focus"]
  BY <1>1, <1>4, <1>6, <1>7, <1>9 DEF SameChrome, SameSprint, Running
<1>11. /\ n \in UiRecords /\ SameSprint(shown, n) /\ OneDrawer(n) /\ BarsKept(shown, n)
       /\ n.notified /\ n.focused /\ n.open["Focus"]
  <2>1. PICK e \in BOOLEAN : e = TRUE
    OBVIOUS
  <2> DEFINE m == NotifyFocusModeChanged(shown, e)
  <2>2. /\ m \in UiRecords /\ SameSprint(shown, m) /\ OneDrawer(m) /\ BarsKept(shown, m)
        /\ (m.notified <=> e) /\ (m.focused <=> e)
        /\ e => m.open["Focus"]
    BY <1>7, <1>8, <1>10, ChromeNotified
  <2>3. m = n
    BY <2>1
  <2> HIDE DEF m, n
  <2> QED BY <2>1, <2>2, <2>3
<1> HIDE DEF n
<1>12. n.sprint = "Running" /\ n.left = left /\ n.timer /\ n.due = u.due
  BY <1>4, <1>9, <1>11 DEF SameSprint
<1>13. /\ v \in UiRecords /\ OneDrawer(v) /\ SameChrome(n, v) /\ v.open = n.open
       /\ v.sprint = n.sprint /\ v.left = n.left /\ v.timer = n.timer
       /\ Ticks(v) = Ticks(n) + 1
  BY <1>3, <1>11, <1>12, TickScheduled
<1>14. Ticks(n) = Ticks(u) /\ Ticks(u) \in Nat
  BY <1>1, <1>12, TicksOf DEF Ticks
<1>15. SprintRecordsAgree(v)
  BY <1>2, <1>11, <1>12, <1>13, <1>14 DEF SprintRecordsAgree, Running, SameChrome
<1>16. BarsKept(u, n)
  BY <1>9, <1>11, BarsKeptLater
<1>17. BarsKept(u, v)
  BY <1>13, <1>16 DEF BarsKept, SameChrome
<1> QED BY <1>13, <1>14, <1>15, <1>17 DEF v

LEMMA SprintStopped ==
  ASSUME NEW u \in UiRecords, OneDrawer(u), u.notified <=> u.focused, ~Running(u),
         u.sprint = "Paused" => u.left > 0
  PROVE  LET v == Stopped(u)
         IN  /\ SprintRecordsAgree(v) /\ BarsKept(u, v)
             /\ Ticks(v) = Ticks(u)
<1> DEFINE w == [u EXCEPT !.timer = FALSE]
           f == ShowFocus(w)
           v == Stopped(u)
<1>1. /\ w \in UiRecords /\ SameChrome(u, w) /\ w.open = u.open /\ w.active = u.active
      /\ w.sprint = u.sprint /\ w.left = u.left /\ ~w.timer /\ w.due = u.due
  BY DEF UiRecords, SameChrome
<1>2. OneDrawer(w)
  BY <1>1 DEF OneDrawer
<1>3. v = NotifyFocusModeChanged(f, FALSE)
  BY DEF Stopped
<1> HIDE DEF w, v
<1>4. /\ f \in UiRecords /\ SameSprint(w, f) /\ SameChrome(w, f) /\ OneDrawer(f)
  BY <1>1, <1>2, FocusShown
<1> HIDE DEF f
<1>5. SameChrome(u, f) /\ (f.notified <=> f.focused)
  BY <1>1, <1>4 DEF SameChrome
<1>6. /\ v \in UiRecords /\ SameSprint(f, v) /\ OneDrawer(v) /\ BarsKept(f, v)
      /\ ~v.notified /\ ~v.focused
  <2>1. PICK e \in BOOLEAN : e = FALSE
    OBVIOUS
  <2> DEFINE m == NotifyFocusModeChanged(f, e)
  <2>2. /\ m \in UiRecords /\ SameSprint(f, m) /\ OneDrawer(m) /\ BarsKept(f, m)
        /\ (m.notified <=> e) /\ (m.focused <=> e)
    BY <1>4, <1>5, <2>1, ChromeNotified
  <2>3. m = v
    BY <1>3, <2>1
  <2> HIDE DEF m
  <2> QED BY <2>1, <2>2, <2>3
<1>7. v.sprint = u.sprint /\ v.left = u.left /\ ~v.timer /\ v.due = u.due
  BY <1>1, <1>4, <1>6 DEF SameSprint
<1>8. SprintRecordsAgree(v)
  BY <1>6, <1>7 DEF SprintRecordsAgree, Running
<1>9. BarsKept(u, v)
  BY <1>5, <1>6, BarsKeptLater
<1>10. Ticks(v) = Ticks(u)
  BY <1>7 DEF Ticks
<1> QED BY <1>8, <1>9, <1>10 DEF v

LEMMA ButtonHandled ==
  ASSUME NEW u, SprintRecordsAgree(u), NEW b \in Buttons
  PROVE  LET v == HandleFocusAction(u, b)
         IN  /\ SprintRecordsAgree(v) /\ BarsKept(u, v)
             /\ Ticks(v) = Ticks(u) + IF b = "Start" THEN 1 ELSE 0
<1> DEFINE v == HandleFocusAction(u, b)
<1>0. 0 \in 0 .. Duration /\ Duration \in 0 .. Duration
  BY FocusConstants
<1>1. u \in UiRecords /\ OneDrawer(u) /\ (u.notified <=> u.focused) /\ Ticks(u) \in Nat
  BY TicksOf DEF SprintRecordsAgree
<1>2. CASE b = "Start"
  BY <1>2, SprintStarts DEF HandleFocusAction
<1>3. CASE b = "Pause"
  <2> DEFINE x == IF Running(u) THEN [u EXCEPT !.sprint = "Paused"] ELSE u
  <2>1. v = Stopped(x)
    BY <1>3 DEF HandleFocusAction, PauseSprint, IsFocusModeActive, Running
  <2>2. /\ x \in UiRecords /\ SameChrome(u, x) /\ x.open = u.open /\ x.active = u.active
        /\ x.left = u.left /\ x.due = u.due /\ ~Running(x)
        /\ x.sprint = "Paused" => u.sprint \in {"Running", "Paused"}
    <3>1. CASE Running(u)
      BY <1>1, <3>1 DEF UiRecords, SameChrome, Running, SprintStates
    <3>2. CASE ~Running(u)
      BY <1>1, <3>2 DEF SameChrome
    <3> QED BY <3>1, <3>2
  <2> HIDE DEF x
  <2>3. /\ OneDrawer(x) /\ (x.notified <=> x.focused) /\ (x.sprint = "Paused" => x.left > 0)
        /\ Ticks(x) = Ticks(u)
    BY <1>1, <2>2 DEF OneDrawer, SameChrome, SprintRecordsAgree, Ticks
  <2>4. SprintRecordsAgree(v) /\ BarsKept(x, v) /\ Ticks(v) = Ticks(x)
    BY <2>1, <2>2, <2>3, SprintStopped
  <2> HIDE DEF v
  <2>5. BarsKept(u, v)
    BY <2>2, <2>4, BarsKeptLater
  <2> QED BY <1>1, <1>3, <2>3, <2>4, <2>5 DEF v
<1>4. CASE b = "Reset"
  <2> DEFINE x == [u EXCEPT !.sprint = "Idle", !.left = Duration]
  <2>1. v = Stopped(x)
    BY <1>4 DEF HandleFocusAction, ResetSprint
  <2>2. /\ x \in UiRecords /\ SameChrome(u, x) /\ x.open = u.open /\ x.active = u.active
        /\ x.due = u.due /\ x.sprint = "Idle"
    BY <1>0, <1>1 DEF UiRecords, SameChrome, SprintStates
  <2> HIDE DEF x
  <2>3. /\ OneDrawer(x) /\ (x.notified <=> x.focused) /\ Ticks(x) = Ticks(u)
        /\ ~Running(x)
    BY <1>1, <2>2 DEF OneDrawer, SameChrome, Ticks, Running
  <2>4. SprintRecordsAgree(v) /\ BarsKept(x, v) /\ Ticks(v) = Ticks(x)
    BY <2>1, <2>2, <2>3, SprintStopped
  <2> HIDE DEF v
  <2>5. BarsKept(u, v)
    BY <2>2, <2>4, BarsKeptLater
  <2> QED BY <1>1, <1>4, <2>3, <2>4, <2>5 DEF v
<1>5. CASE b = "Expand"
  <2>1. v = ShowFocus(u)
    BY <1>5 DEF HandleFocusAction
  <2>2. /\ v \in UiRecords /\ SameSprint(u, v) /\ SameChrome(u, v) /\ OneDrawer(v)
        /\ v.open["Focus"]
    BY <1>1, <2>1, FocusShown
  <2> HIDE DEF v
  <2>3. SprintRecordsAgree(v) /\ BarsKept(u, v) /\ Ticks(v) = Ticks(u)
    BY <2>2 DEF SprintRecordsAgree, SameSprint, SameChrome, Running, Ticks, BarsKept
  <2> QED BY <1>1, <1>5, <2>3 DEF v
<1> QED BY <1>2, <1>3, <1>4, <1>5 DEF Buttons

LEMMA TimerTicked ==
  ASSUME NEW u, SprintRecordsAgree(u), u.due[0] > 0
  PROVE  LET v == OnTimerTick([u EXCEPT !.due[0] = @ - 1])
         IN  /\ SprintRecordsAgree(v) /\ BarsKept(u, v) /\ Ticks(v) <= Ticks(u)
<1> DEFINE d == [u.due EXCEPT ![0] = u.due[0] - 1]
           w == [u EXCEPT !.due = d]
           v == OnTimerTick(w)
<1>0. 0 \in 0 .. Duration /\ Duration \in 0 .. Duration
  BY FocusConstants
<1>1. u \in UiRecords /\ OneDrawer(u) /\ Ticks(u) \in Nat /\ u.left \in 0 .. Duration
  BY TicksOf DEF SprintRecordsAgree, UiRecords
<1>2. d \in [0 .. 2 -> Nat] /\ d[0] + d[1] + d[2] = Ticks(u) - 1
  BY <1>1 DEF UiRecords, Ticks
<1> HIDE DEF d
<1>3. /\ w \in UiRecords /\ SameChrome(u, w) /\ w.open = u.open /\ w.active = u.active
      /\ w.sprint = u.sprint /\ w.left = u.left /\ w.timer = u.timer /\ w.due = d
  BY <1>1, <1>2 DEF UiRecords, SameChrome
<1>4. [u EXCEPT !.due[0] = @ - 1] = w
  BY DEF d
<1> HIDE DEF w
<1>5. OneDrawer(w) /\ Ticks(w) = Ticks(u) - 1
  BY <1>1, <1>2, <1>3 DEF OneDrawer, Ticks
<1>6. CASE ~Running(u)
  <2>1. v = w
    BY <1>3, <1>6 DEF OnTimerTick, IsFocusModeActive, Running
  <2> HIDE DEF v
  <2>2. SprintRecordsAgree(v) /\ BarsKept(u, v) /\ Ticks(v) <= Ticks(u)
    BY <1>1, <1>3, <1>5, <1>6, <2>1 DEF SprintRecordsAgree, SameChrome, BarsKept, Running
  <2> QED BY <1>4, <2>2 DEF v
<1>7. CASE Running(u) /\ u.left <= 1
  <2> DEFINE x == [w EXCEPT !.sprint = "Completed", !.left = 0, !.timer = FALSE, !.compact = FALSE]
  <2>1. v = NotifyFocusModeChanged(x, FALSE)
    BY <1>3, <1>7 DEF OnTimerTick, IsFocusModeActive, Running, Complete,
                      SprintRecordsAgree
  <2>2. /\ x \in UiRecords /\ SameChrome(w, x) /\ x.open = w.open /\ x.active = w.active
        /\ x.sprint = "Completed" /\ ~x.timer /\ x.due = w.due
    BY <1>0, <1>3 DEF UiRecords, SameChrome, SprintStates
  <2> HIDE DEF x, v
  <2>3. OneDrawer(x) /\ SameChrome(u, x) /\ (x.notified <=> x.focused)
    BY <1>3, <1>5, <2>2 DEF OneDrawer, SameChrome, SprintRecordsAgree
  <2>4. /\ v \in UiRecords /\ SameSprint(x, v) /\ OneDrawer(v) /\ BarsKept(x, v)
        /\ ~v.notified /\ ~v.focused
    <3>1. PICK e \in BOOLEAN : e = FALSE
      OBVIOUS
    <3> DEFINE m == NotifyFocusModeChanged(x, e)
    <3>2. /\ m \in UiRecords /\ SameSprint(x, m) /\ OneDrawer(m) /\ BarsKept(x, m)
          /\ (m.notified <=> e) /\ (m.focused <=> e)
      BY <2>2, <2>3, <3>1, ChromeNotified
    <3>3. m = v
      BY <2>1, <3>1
    <3> HIDE DEF m
    <3> QED BY <3>1, <3>2, <3>3
  <2>5. v.sprint = "Completed" /\ ~v.timer /\ Ticks(v) = Ticks(w)
    BY <2>2, <2>4 DEF SameSprint, Ticks
  <2>6. SprintRecordsAgree(v)
    BY <2>4, <2>5 DEF SprintRecordsAgree, Running
  <2>7. BarsKept(u, v)
    BY <2>3, <2>4, BarsKeptLater
  <2> QED BY <1>1, <1>4, <1>5, <2>5, <2>6, <2>7 DEF v
<1>8. CASE Running(u) /\ u.left > 1
  <2> DEFINE left == w.left - 1
             x == [w EXCEPT !.left = left]
  <2>1. v = ScheduleTimerTick(x)
    BY <1>1, <1>3, <1>8 DEF OnTimerTick, IsFocusModeActive, Running,
                            SprintRecordsAgree
  <2>2. left \in 0 .. Duration /\ left > 0
    BY <1>1, <1>3, <1>8, FocusConstants
  <2> HIDE DEF left
  <2>3. /\ x \in UiRecords /\ SameChrome(w, x) /\ x.open = w.open /\ x.active = w.active
        /\ x.sprint = w.sprint /\ x.left = left /\ x.timer = w.timer /\ x.due = w.due
    BY <1>3, <2>2 DEF UiRecords, SameChrome
  <2> HIDE DEF x, v
  <2>4. OneDrawer(x) /\ Ticks(x) = Ticks(w)
    BY <1>5, <2>3 DEF OneDrawer, Ticks
  <2>5. x.timer /\ Running(x)
    BY <1>3, <1>8, <2>3 DEF SprintRecordsAgree, Running
  <2>6. /\ v \in UiRecords /\ OneDrawer(v) /\ SameChrome(x, v) /\ v.open = x.open
        /\ v.sprint = x.sprint /\ v.left = x.left /\ v.timer = x.timer
        /\ Ticks(v) = Ticks(x) + 1
    BY <2>1, <2>3, <2>4, <2>5, TickScheduled
  <2>7. Ticks(v) = Ticks(u)
    BY <1>1, <1>5, <2>4, <2>6
  <2>8. SameChrome(u, v)
    BY <1>3, <2>3, <2>6 DEF SameChrome
  <2>9. SprintRecordsAgree(v)
    BY <1>3, <1>8, <2>2, <2>3, <2>6, <2>7, <2>8 DEF SprintRecordsAgree, Running, SameChrome
  <2>10. BarsKept(u, v)
    BY <2>8 DEF BarsKept, SameChrome
  <2> QED BY <1>1, <1>4, <2>7, <2>9, <2>10 DEF v
<1> QED BY <1>1, <1>6, <1>7, <1>8
-----------------------------------------------------------------------------
\* The presses of Start that wait, of which each will post a tick.
Starts(s) == {i \in DOMAIN s : s[i] = "Start"}

LEMMA StartsAreFinite ==
  ASSUME NEW s \in Seq(Buttons)
  PROVE  IsFiniteSet(Starts(s)) /\ Cardinality(Starts(s)) \in Nat
<1>1. IsFiniteSet(1 .. Len(s)) /\ DOMAIN s = 1 .. Len(s)
  BY LenProperties, FS_Interval
<1>2. Starts(s) \in SUBSET (1 .. Len(s))
  BY <1>1 DEF Starts
<1> QED BY <1>1, <1>2, FS_Subset, FS_CardinalityType

LEMMA StartAppended ==
  ASSUME NEW s \in Seq(Buttons), NEW b \in Buttons
  PROVE  /\ Append(s, b) \in Seq(Buttons) /\ Len(Append(s, b)) = Len(s) + 1
         /\ Cardinality(Starts(Append(s, b)))
              = Cardinality(Starts(s)) + IF b = "Start" THEN 1 ELSE 0
<1> DEFINE a == Append(s, b)
<1>1. /\ a \in Seq(Buttons) /\ Len(a) = Len(s) + 1 /\ Len(s) \in Nat
      /\ \A i \in 1 .. Len(s) : a[i] = s[i]
      /\ a[Len(s) + 1] = b /\ DOMAIN s = 1 .. Len(s) /\ DOMAIN a = 1 .. Len(s) + 1
  BY AppendProperties, LenProperties
<1>2. IsFiniteSet(Starts(s)) /\ Cardinality(Starts(s)) \in Nat
  BY StartsAreFinite
<1>3. Len(s) + 1 \notin Starts(s)
  BY <1>1 DEF Starts
<1> HIDE DEF a
<1>4. CASE b = "Start"
  <2>1. Starts(a) = Starts(s) \cup {Len(s) + 1}
    BY <1>1, <1>4 DEF Starts
  <2>2. Cardinality(Starts(s) \cup {Len(s) + 1}) = Cardinality(Starts(s)) + 1
    BY <1>2, <1>3, FS_AddElement
  <2> QED BY <1>1, <1>4, <2>1, <2>2 DEF a
<1>5. CASE b # "Start"
  <2>1. Starts(a) = Starts(s)
    BY <1>1, <1>5 DEF Starts
  <2> QED BY <1>1, <1>2, <1>5, <2>1 DEF a
<1> QED BY <1>4, <1>5

LEMMA StartTaken ==
  ASSUME NEW s \in Seq(Buttons), s # <<>>
  PROVE  /\ Head(s) \in Buttons /\ Tail(s) \in Seq(Buttons)
         /\ Len(Tail(s)) = Len(s) - 1
         /\ Cardinality(Starts(Tail(s))) + (IF Head(s) = "Start" THEN 1 ELSE 0)
              <= Cardinality(Starts(s))
<1> DEFINE t == Tail(s)
           first == IF Head(s) = "Start" THEN {1} ELSE {}
           next == [i \in Starts(t) |-> i + 1]
           rest == Starts(s) \ first
<1>1. /\ Head(s) \in Buttons /\ t \in Seq(Buttons) /\ Len(t) = Len(s) - 1
      /\ \A i \in 1 .. Len(t) : t[i] = s[i + 1]
      /\ Len(s) \in Nat \ {0} /\ DOMAIN s = 1 .. Len(s) /\ DOMAIN t = 1 .. Len(s) - 1
      /\ Head(s) = s[1]
  BY HeadTailProperties, LenProperties, EmptySeq
<1> HIDE DEF t
<1>2. IsFiniteSet(Starts(s)) /\ Cardinality(Starts(s)) \in Nat
  BY StartsAreFinite
<1>3. IsFiniteSet(Starts(t)) /\ Cardinality(Starts(t)) \in Nat
  BY <1>1, StartsAreFinite
<1>4. \A i \in Starts(t) : i \in Nat /\ i + 1 \in rest
  BY <1>1 DEF Starts
<1>5. IsFiniteSet(rest) /\ Cardinality(rest) \in Nat
      /\ Cardinality(rest) + (IF Head(s) = "Start" THEN 1 ELSE 0) = Cardinality(Starts(s))
  <2>1. CASE Head(s) = "Start"
    <3>1. 1 \in Starts(s)
      BY <1>1, <2>1 DEF Starts
    <3>2. rest = Starts(s) \ {1}
      BY <2>1
    <3> HIDE DEF rest
    <3>3. IsFiniteSet(rest) /\ Cardinality(rest) = Cardinality(Starts(s)) - 1
      BY <1>2, <3>1, <3>2, FS_RemoveElement
    <3>4. Cardinality(rest) \in Nat
      BY <3>3, FS_CardinalityType
    <3> QED BY <1>2, <2>1, <3>3, <3>4
  <2>2. CASE Head(s) # "Start"
    <3>1. rest = Starts(s)
      BY <2>2
    <3> HIDE DEF rest
    <3> QED BY <1>2, <2>2, <3>1
  <2> QED BY <2>1, <2>2
<1> HIDE DEF rest
<1>6. next \in Injection(Starts(t), rest)
  <2>1. next \in [Starts(t) -> rest]
    BY <1>4
  <2>2. \A i, j \in Starts(t) : next[i] = next[j] => i = j
    BY <1>4
  <2> HIDE DEF next
  <2> QED BY <2>1, <2>2 DEF Injection, IsInjective
<1> HIDE DEF next
<1>7. Cardinality(Starts(t)) <= Cardinality(rest)
  BY <1>5, <1>6, FS_Injection
<1> QED BY <1>1, <1>2, <1>3, <1>5, <1>7 DEF t
\* The inductive invariant: the records of the sprint agree, and ticks do not pile up.
FocusSafe ==
  /\ SprintRecordsAgree(ui)
  /\ presses \in Seq(Buttons) /\ Len(presses) <= MaxPresses
  /\ Ticks(ui) + Cardinality(Starts(presses)) <= MaxTicks

\* A step that leaves the sprint and its ticks alone.
LEMMA SprintUntouched ==
  ASSUME NEW u, NEW v \in UiRecords, SprintRecordsAgree(u), SameSprint(u, v),
         v.notified = u.notified, v.focused = u.focused, OneDrawer(v),
         Running(u) => v.open["Focus"]
  PROVE  SprintRecordsAgree(v) /\ Ticks(v) = Ticks(u)
BY DEF SprintRecordsAgree, SameSprint, Running, Ticks

LEMMA FocusStep ==
  ASSUME FocusSafe, [FocusNext]_focusVars
  PROVE  FocusSafe' /\ BarsKept(ui, ui')
<1>1. /\ ui \in UiRecords /\ OneDrawer(ui) /\ SprintRecordsAgree(ui)
      /\ presses \in Seq(Buttons) /\ Len(presses) \in Nat /\ Len(presses) <= MaxPresses
      /\ Ticks(ui) \in Nat /\ Cardinality(Starts(presses)) \in Nat
      /\ Ticks(ui) + Cardinality(Starts(presses)) <= MaxTicks
      /\ MaxTicks \in Nat /\ MaxPresses \in Nat
  BY TicksOf, StartsAreFinite, LenProperties, FocusConstants DEF FocusSafe, SprintRecordsAgree
<1>2. ASSUME NEW v \in UiRecords, ui' = v, presses' = presses, SameSprint(ui, v),
             v.notified = ui.notified, v.focused = ui.focused, OneDrawer(v),
             Running(ui) => v.open["Focus"], BarsKept(ui, v)
      PROVE  FocusSafe' /\ BarsKept(ui, ui')
  <2>1. SprintRecordsAgree(v) /\ Ticks(v) = Ticks(ui)
    BY <1>1, <1>2, SprintUntouched
  <2> QED BY <1>1, <1>2, <2>1 DEF FocusSafe, Starts
<1>3. CASE PressFocusButton
  <2>1. PICK b \in Shown(ui) :
          /\ b = "Start" => TicksAhead < MaxTicks
          /\ presses' = Append(presses, b)
    BY <1>3 DEF PressFocusButton
  <2>2. b \in Buttons /\ ui' = ui /\ Len(presses) < MaxPresses
    BY <1>3, <2>1 DEF PressFocusButton, Shown, Buttons
  <2>3. /\ presses' \in Seq(Buttons) /\ Len(presses') = Len(presses) + 1
        /\ Cardinality(Starts(presses'))
             = Cardinality(Starts(presses)) + IF b = "Start" THEN 1 ELSE 0
    BY <1>1, <2>1, <2>2, StartAppended
  <2>4. TicksAhead = Ticks(ui) + Cardinality(Starts(presses))
    BY DEF TicksAhead, Starts
  <2>5. Ticks(ui) + Cardinality(Starts(presses')) <= MaxTicks
    BY <1>1, <2>1, <2>3, <2>4
  <2>6. FocusSafe'
    BY <1>1, <2>2, <2>3, <2>5 DEF FocusSafe
  <2> QED BY <2>2, <2>6 DEF BarsKept
<1>4. CASE HandleFocusButton
  <2> DEFINE b == Head(presses)
             v == HandleFocusAction(ui, b)
  <2>1. presses # <<>> /\ ui' = v /\ presses' = Tail(presses)
    BY <1>4 DEF HandleFocusButton
  <2>2. /\ b \in Buttons /\ Tail(presses) \in Seq(Buttons)
        /\ Len(Tail(presses)) = Len(presses) - 1
        /\ Cardinality(Starts(Tail(presses))) + (IF b = "Start" THEN 1 ELSE 0)
             <= Cardinality(Starts(presses))
    BY <1>1, <2>1, StartTaken
  <2> HIDE DEF b
  <2>3. /\ SprintRecordsAgree(v) /\ BarsKept(ui, v)
        /\ Ticks(v) = Ticks(ui) + IF b = "Start" THEN 1 ELSE 0
    BY <1>1, <2>2, ButtonHandled
  <2> HIDE DEF v
  <2>4. Cardinality(Starts(Tail(presses))) \in Nat
    BY <2>2, StartsAreFinite
  <2>5. FocusSafe'
    BY <1>1, <2>1, <2>2, <2>3, <2>4 DEF FocusSafe
  <2> QED BY <2>1, <2>3, <2>5
<1>5. CASE ToggleDrawer
  <2>1. presses' = presses
        /\ (ui' = ToggleFocusPanel(ui)
            \/ \E p \in Drawers : ui' = ToggleTransientPanel(ui, p))
    BY <1>5 DEF ToggleDrawer
  <2>2. ASSUME NEW p \in Panels, ui' = ToggleTransientPanel(ui, p)
        PROVE  FocusSafe' /\ BarsKept(ui, ui')
    <3> DEFINE v == ToggleTransientPanel(ui, p)
    <3>1. /\ v \in UiRecords /\ SameSprint(ui, v) /\ SameChrome(ui, v) /\ OneDrawer(v)
          /\ Running(ui) => v.open["Focus"]
      BY <1>1, PanelToggled
    <3>2. ui' = v
      BY <2>2
    <3> HIDE DEF v
    <3> QED BY <1>2, <2>1, <3>1, <3>2 DEF SameChrome, BarsKept
  <2>3. ASSUME ui' = ShowFocus(ui)
        PROVE  FocusSafe' /\ BarsKept(ui, ui')
    <3> DEFINE v == ShowFocus(ui)
    <3>1. /\ v \in UiRecords /\ SameSprint(ui, v) /\ SameChrome(ui, v) /\ OneDrawer(v)
          /\ v.open["Focus"]
      BY <1>1, FocusShown
    <3>2. ui' = v
      BY <2>3
    <3> HIDE DEF v
    <3> QED BY <1>2, <2>1, <3>1, <3>2 DEF SameChrome, BarsKept
  <2>4. ASSUME ui' = [ui EXCEPT !.compact = TRUE]
        PROVE  FocusSafe' /\ BarsKept(ui, ui')
    <3> DEFINE v == [ui EXCEPT !.compact = TRUE]
    <3>1. /\ v \in UiRecords /\ SameSprint(ui, v) /\ SameChrome(ui, v)
          /\ v.open = ui.open /\ v.active = ui.active
      BY <1>1 DEF UiRecords, SameSprint, SameChrome
    <3>2. ui' = v
      BY <2>4
    <3> HIDE DEF v
    <3>3. OneDrawer(v) /\ (Running(ui) => v.open["Focus"])
      BY <1>1, <3>1 DEF OneDrawer, SprintRecordsAgree
    <3> QED BY <1>2, <2>1, <3>1, <3>2, <3>3 DEF SameChrome, BarsKept
  <2>5. ui' = ToggleFocusPanel(ui) =>
          \/ ui' = ToggleTransientPanel(ui, "Focus")
          \/ ui' = ShowFocus(ui)
          \/ ui' = [ui EXCEPT !.compact = TRUE]
    BY DEF ToggleFocusPanel
  <2> QED BY <2>1, <2>2, <2>3, <2>4, <2>5, FocusIsAPanel
<1>6. CASE CloseDrawer
  <2>1. PICK p \in Drawers : ui' = SetVisible(ui, p, FALSE)
    BY <1>6 DEF CloseDrawer
  <2>2. PICK b \in BOOLEAN : b = FALSE
    OBVIOUS
  <2> DEFINE v == SetVisible(ui, p, b)
  <2>3. /\ v \in UiRecords /\ SameSprint(ui, v) /\ SameChrome(ui, v) /\ OneDrawer(v)
        /\ v.open = [ui.open EXCEPT ![p] = b]
    BY <1>1, <2>2, PanelShown, FocusIsAPanel
  <2>4. ui' = v /\ presses' = presses
    BY <1>6, <2>1, <2>2 DEF CloseDrawer
  <2> HIDE DEF v
  <2>5. Running(ui) => v.open["Focus"]
    BY <1>1, <2>3, FocusIsAPanel DEF UiRecords, SprintRecordsAgree
  <2> QED BY <1>2, <2>3, <2>4, <2>5 DEF SameChrome, BarsKept
<1>7. CASE ToggleBar \/ NotifySettingsChanged
  <2>1. PICK c \in [Bars -> BOOLEAN] : ui' = [ui EXCEPT !.chrome = c]
    <3>1. CASE ToggleBar
      <4>1. PICK b \in {"aura", "bookmarks"} : ui' = [ui EXCEPT !.chrome[b] = ~@]
        BY <3>1 DEF ToggleBar
      <4>2. [ui.chrome EXCEPT ![b] = ~@] \in [Bars -> BOOLEAN]
        BY <1>1 DEF UiRecords, Bars
      <4> QED BY <4>1, <4>2
    <3>2. CASE NotifySettingsChanged
      <4>1. PICK x \in BOOLEAN : ui' = [ui EXCEPT !.chrome["aura"] = x]
        BY <3>2 DEF NotifySettingsChanged
      <4>2. [ui.chrome EXCEPT !["aura"] = x] \in [Bars -> BOOLEAN]
        BY <1>1 DEF UiRecords, Bars
      <4> QED BY <4>1, <4>2
    <3> QED BY <1>7, <3>1, <3>2
  <2> DEFINE v == [ui EXCEPT !.chrome = c]
  <2>2. /\ v \in UiRecords /\ SameSprint(ui, v) /\ v.open = ui.open /\ v.active = ui.active
        /\ v.notified = ui.notified /\ v.focused = ui.focused /\ v.before = ui.before
    BY <1>1 DEF UiRecords, SameSprint
  <2>3. ui' = v /\ presses' = presses
    BY <1>7, <2>1 DEF ToggleBar, NotifySettingsChanged
  <2> HIDE DEF v
  <2>4. OneDrawer(v) /\ (Running(ui) => v.open["Focus"]) /\ BarsKept(ui, v)
    BY <1>1, <2>2 DEF OneDrawer, SprintRecordsAgree, BarsKept
  <2> QED BY <1>2, <2>2, <2>3, <2>4
<1>8. CASE Tick
  <2> DEFINE v == OnTimerTick([ui EXCEPT !.due[0] = @ - 1])
  <2>1. ui' = v /\ presses' = presses /\ ui.due[0] > 0
    BY <1>8 DEF Tick
  <2>2. SprintRecordsAgree(v) /\ BarsKept(ui, v) /\ Ticks(v) <= Ticks(ui)
    BY <1>1, <2>1, TimerTicked
  <2> HIDE DEF v
  <2>3. Ticks(v) \in Nat
    BY <2>2, TicksOf DEF SprintRecordsAgree
  <2>4. FocusSafe'
    BY <1>1, <2>1, <2>2, <2>3 DEF FocusSafe, Starts
  <2> QED BY <2>1, <2>2, <2>4
<1>9. CASE HalfSecond
  <2> DEFINE d == [h \in 0 .. 2 |-> IF h = 2 THEN 0 ELSE ui.due[h + 1]]
             v == [ui EXCEPT !.due = d]
  <2>1. ui' = v /\ presses' = presses /\ ui.due[0] = 0
    BY <1>9 DEF HalfSecond
  <2>2. d \in [0 .. 2 -> Nat] /\ d[0] = ui.due[1] /\ d[1] = ui.due[2] /\ d[2] = 0
    BY <1>1 DEF UiRecords
  <2> HIDE DEF d
  <2>3. /\ v \in UiRecords /\ v.due = d /\ v.open = ui.open /\ v.active = ui.active
        /\ SameChrome(ui, v) /\ v.sprint = ui.sprint /\ v.left = ui.left /\ v.timer = ui.timer
    BY <1>1, <2>2 DEF UiRecords, SameChrome
  <2> HIDE DEF v
  <2>4. Ticks(v) = Ticks(ui)
    BY <1>1, <2>1, <2>2, <2>3, TicksOf DEF Ticks
  <2>5. SprintRecordsAgree(v) /\ BarsKept(ui, v)
    BY <1>1, <2>3, <2>4 DEF SprintRecordsAgree, SameChrome, OneDrawer, Running, BarsKept
  <2>6. FocusSafe'
    BY <1>1, <2>1, <2>4, <2>5 DEF FocusSafe, Starts
  <2> QED BY <2>1, <2>5, <2>6
<1>10. CASE UNCHANGED focusVars
  <2>1. ui' = ui /\ presses' = presses
    BY <1>10 DEF focusVars
  <2>2. FocusSafe'
    BY <2>1 DEF FocusSafe, Starts
  <2> QED BY <2>1, <2>2 DEF BarsKept
<1> QED BY <1>3, <1>4, <1>5, <1>6, <1>7, <1>8, <1>9, <1>10 DEF FocusNext

LEMMA FocusStarts ==
  ASSUME FocusInit
  PROVE  FocusSafe
<1>1. PICK lab \in BOOLEAN, aura \in BOOLEAN :
        ui = [sprint |-> "Idle", left |-> Duration, timer |-> FALSE,
              due |-> [h \in 0 .. 2 |-> 0], compact |-> FALSE, notified |-> FALSE,
              open |-> [p \in Panels |-> lab /\ p = "NetworkLab"],
              active |-> IF lab THEN "NetworkLab" ELSE "None", focused |-> FALSE,
              chrome |-> [b \in Bars |-> b = "tabs" \/ (b = "aura" /\ aura)],
              before |-> [b \in Bars |-> b = "tabs"]]
  BY DEF FocusInit
<1> DEFINE d == [h \in 0 .. 2 |-> 0]
           o == [p \in Panels |-> lab /\ p = "NetworkLab"]
           a == IF lab THEN "NetworkLab" ELSE "None"
           c == [b \in Bars |-> b = "tabs" \/ (b = "aura" /\ aura)]
           e == [b \in Bars |-> b = "tabs"]
<1>2. /\ d \in [0 .. 2 -> Nat] /\ d[0] + d[1] + d[2] = 0
      /\ o \in [Panels -> BOOLEAN] /\ c \in [Bars -> BOOLEAN]
      /\ e \in [Bars -> BOOLEAN]
  OBVIOUS
<1>3. "NetworkLab" \in Drawers /\ "NetworkLab" \in Panels
  BY FocusIsAPanel, FocusConstants
<1>4. a \in Panels \cup {"None"} /\ (a # "None" => o[a])
  BY <1>3
<1>5. \A p \in Panels : o[p] => p = "NetworkLab"
  OBVIOUS
<1>6. Duration \in 0 .. Duration
  BY FocusConstants
<1>7. ui = [sprint |-> "Idle", left |-> Duration, timer |-> FALSE, due |-> d,
            compact |-> FALSE, notified |-> FALSE, open |-> o, active |-> a,
            focused |-> FALSE, chrome |-> c, before |-> e]
  BY <1>1
<1> HIDE DEF d, o, a, c, e
<1>8. ui \in UiRecords /\ Ticks(ui) = 0
  BY <1>2, <1>4, <1>6, <1>7 DEF UiRecords, SprintStates, Ticks
<1>9. OneDrawer(ui)
  BY <1>4, <1>5, <1>7, FocusIsAPanel DEF OneDrawer
<1>10. SprintRecordsAgree(ui)
  BY <1>7, <1>8, <1>9 DEF SprintRecordsAgree, Running
<1>11. presses = <<>> /\ <<>> \in Seq(Buttons) /\ Len(<<>>) = 0
  BY EmptySeq DEF FocusInit
<1>12. Starts(presses) = {}
  BY <1>11 DEF Starts
<1>13. Cardinality(Starts(presses)) = 0
  BY <1>12, FS_EmptySet
<1> QED BY <1>8, <1>10, <1>11, <1>13, FocusConstants DEF FocusSafe

LEMMA FocusAlways == FocusSpec => []FocusSafe
<1>1. FocusInit => FocusSafe
  BY FocusStarts
<1>2. FocusSafe /\ [FocusNext]_focusVars => FocusSafe'
  BY FocusStep
<1> QED BY <1>1, <1>2, PTL DEF FocusSpec

\* FocusIsSound: whatever presses and ticks arrive late and whatever drawers open and
\* close in between, the five records of a sprint agree, a running sprint has a tick on
\* its way and time left, and at most one drawer is open beside Focus.
THEOREM SprintStaysSound == FocusSpec => []FocusIsSound
<1>1. FocusSafe => FocusIsSound
  <2> SUFFICES ASSUME FocusSafe PROVE FocusIsSound
    OBVIOUS
  <2>1. /\ ui \in UiRecords /\ OneDrawer(ui) /\ SprintRecordsAgree(ui)
        /\ presses \in Seq(Buttons) /\ Len(presses) <= MaxPresses
        /\ Ticks(ui) \in Nat /\ Cardinality(Starts(presses)) \in Nat
        /\ Ticks(ui) + Cardinality(Starts(presses)) <= MaxTicks
        /\ MaxTicks \in Nat
    BY TicksOf, StartsAreFinite, FocusConstants DEF FocusSafe, SprintRecordsAgree
  <2>2. ui.due[0] <= MaxTicks /\ ui.due[1] <= MaxTicks /\ ui.due[2] <= MaxTicks
    <3> DEFINE i == ui.due[0]
               j == ui.due[1]
               k == ui.due[2]
    <3>1. i \in Nat /\ j \in Nat /\ k \in Nat
      BY <2>1 DEF UiRecords
    <3>2. i + j + k <= MaxTicks
      <4>1. Ticks(ui) = i + j + k
        BY DEF Ticks
      <4> DEFINE n == Ticks(ui)
                 m == Cardinality(Starts(presses))
      <4>2. n \in Nat /\ m \in Nat /\ n + m <= MaxTicks
        BY <2>1
      <4> HIDE DEF m
      <4>3. n <= MaxTicks
        <5> HIDE DEF n
        <5> QED BY <2>1, <4>2
      <4> QED BY <4>1, <4>3
    <3>3. MaxTicks \in Nat
      BY <2>1
    <3> HIDE DEF i, j, k
    <3>4. i <= MaxTicks /\ j <= MaxTicks /\ k <= MaxTicks
      BY <3>1, <3>2, <3>3
    <3> QED BY <3>4 DEF i, j, k
  <2>3. ui.due \in [0 .. 2 -> 0 .. MaxTicks]
    BY <2>1, <2>2 DEF UiRecords
  <2>4. TypeOK
    BY <2>1, <2>3 DEF UiRecords, TypeOK
  <2>5. FocusModeIsSprint
    BY <2>1 DEF UiRecords, SprintRecordsAgree, Running, FocusModeIsSprint,
                IsFocusModeActive
  <2>6. SprintKeepsTicking
    BY <2>1 DEF SprintRecordsAgree, Running, SprintKeepsTicking, IsFocusModeActive
  <2>7. Cardinality({p \in Drawers : ui.open[p]}) <= 1
    <3> DEFINE O == {p \in Drawers : ui.open[p]}
    <3>1. CASE O = {}
      BY <3>1, FS_EmptySet
    <3>2. CASE O # {}
      <4>1. PICK p \in O : TRUE
        BY <3>2
      <4>2. O = {p}
        BY <2>1, <4>1 DEF OneDrawer
      <4>3. Cardinality(O) = 1
        <5> HIDE DEF O
        <5> QED BY <4>2, FS_Singleton
      <4> QED BY <4>3
    <3> QED BY <3>1, <3>2
  <2>8. ui.active # "None" => ui.open[ui.active]
    BY <2>1 DEF OneDrawer
  <2>9. DrawersAgree
    BY <2>7, <2>8 DEF DrawersAgree
  <2> QED BY <2>4, <2>5, <2>6, <2>9 DEF FocusIsSound
<1> QED BY <1>1, FocusAlways, PTL

\* ChromeIsRestored: the bars a sprint took away come back as they were when it started,
\* however it is paused, reset or completed.
THEOREM ChromeComesBack == FocusSpec => ChromeIsRestored
<1> DEFINE Body ==
      /\ ui.focused => ui'.before = ui.before
      /\ ~ui.focused /\ ui'.focused => ui'.before = ui.chrome
      /\ ui.focused /\ ~ui'.focused => ui'.chrome = ui.before
<1>1. FocusSafe /\ [FocusNext]_focusVars => [Body]_focusVars
  BY FocusStep DEF BarsKept
<1>2. FocusSpec => [][Body]_focusVars
  BY <1>1, FocusAlways, PTL DEF FocusSpec
<1> QED BY <1>2 DEF ChromeIsRestored
-----------------------------------------------------------------------------
\* Workspaces.

TabRows == [id: Nat, ws: WorkspaceIds \cup {NoWorkspace}, eph: BOOLEAN]
ClosedRows == [ws: WorkspaceIds \cup {NoWorkspace}, eph: BOOLEAN]
Disks ==
  [workspace: WorkspaceIds, session: [tabs: Seq(TabRows), active: Nat], sidebar: SidebarStates]
Browsers ==
  [tabs: Seq(TabRows), active: Nat, closed: Seq(ClosedRows), made: Nat, current: WorkspaceIds,
   private: BOOLEAN, rows: Seq(Nat), marked: WorkspaceIds, disk: Disks]

\* Ids are numbers given once.
IdsSound(tabs, made) ==
  /\ \A i, j \in DOMAIN tabs : tabs[i].id = tabs[j].id => i = j
  /\ \A i \in DOMAIN tabs : tabs[i].id \in 1 .. made

\* What every change of the session leaves for its observers: the active tab is open and of
\* the mode, so that the strip never has to correct it.
Settled(b) ==
  /\ b \in Browsers /\ IdsSound(b.tabs, b.made)
  /\ b.active # NoTab =>
       \E i \in DOMAIN b.tabs : b.tabs[i].id = b.active /\ b.tabs[i].eph = b.private
  /\ b.disk.workspace = b.current

StripIs(b) ==
  /\ b.active # NoTab => IsTabVisibleInCurrentContext(b, TabOf(b, b.active))
  /\ b.rows = [i \in DOMAIN Listed(b) |-> Listed(b)[i].id]
  /\ b.marked = b.current

SameTabs(b, c) ==
  /\ c.tabs = b.tabs /\ c.active = b.active /\ c.closed = b.closed /\ c.made = b.made
  /\ c.private = b.private

LEMMA OrderNonEmpty ==
  /\ Default \in WorkspaceIds /\ Len(Order) \in Nat /\ Len(Order) > 0
  /\ DOMAIN Order = 1 .. Len(Order)
<1>1. Order \in Seq(WorkspaceIds) /\ Order # <<>> /\ Default = Order[1]
  BY OrderAssumption
<1>2. Len(Order) \in Nat /\ DOMAIN Order = 1 .. Len(Order)
  BY <1>1, LenProperties
<1>3. Len(Order) # 0
  BY <1>1, EmptySeq
<1>4. 1 \in DOMAIN Order
  BY <1>2, <1>3
<1> QED BY <1>1, <1>2, <1>3, <1>4 DEF WorkspaceIds

LEMMA TabFound ==
  ASSUME NEW b, IdsSound(b.tabs, b.made), NEW i \in DOMAIN b.tabs
  PROVE  TabOf(b, b.tabs[i].id) = b.tabs[i] /\ IsOpen(b, b.tabs[i].id)
BY DEF TabOf, ToSet, IdsSound, IsOpen

LEMMA HomeIsWorkspace ==
  ASSUME NEW tab \in TabRows
  PROVE  Home(tab) \in WorkspaceIds
BY OrderNonEmpty DEF Home, TabRows

LEMMA ListedSame ==
  ASSUME NEW b, NEW c, c.tabs = b.tabs, c.current = b.current, c.private = b.private
  PROVE  Listed(c) = Listed(b)
BY DEF Listed, IsTabVisibleInCurrentContext, IsTabVisible

\* The tabs that are listed are tabs, and those of the mode and the workspace.
LEMMA ListedTabs ==
  ASSUME NEW b, b.tabs \in Seq(TabRows)
  PROVE  /\ Listed(b) \in Seq(TabRows)
         /\ [i \in DOMAIN Listed(b) |-> Listed(b)[i].id] \in Seq(Nat)
         /\ \A k \in DOMAIN Listed(b) : \E i \in DOMAIN b.tabs :
              Listed(b)[k] = b.tabs[i] /\ IsTabVisibleInCurrentContext(b, b.tabs[i])
         /\ \A i \in DOMAIN b.tabs :
              IsTabVisibleInCurrentContext(b, b.tabs[i]) => Listed(b) # <<>>
<1> DEFINE S == {tab \in ToSet(b.tabs) : IsTabVisibleInCurrentContext(b, tab)}
           l == Listed(b)
<1>1. b.tabs \in Seq(ToSet(b.tabs))
  <2>1. Len(b.tabs) \in Nat /\ DOMAIN b.tabs = 1 .. Len(b.tabs) /\ b.tabs \in [1 .. Len(b.tabs) -> TabRows]
    BY LenProperties
  <2>2. b.tabs \in [1 .. Len(b.tabs) -> ToSet(b.tabs)]
    BY <2>1 DEF ToSet
  <2> QED BY <2>1, <2>2, SeqDef
<1>2. l = Kept(b.tabs, S)
  BY DEF Listed
<1>3. Kept(b.tabs, S) \in Seq(TabRows \cap S) /\ Kept(b.tabs, S) \in Seq(ToSet(b.tabs) \cap S)
  <2> HIDE DEF S
  <2> QED BY <1>1, KeptType
<1>4. \A i \in DOMAIN b.tabs : b.tabs[i] \in S => Len(Kept(b.tabs, S)) > 0
  <2> HIDE DEF S
  <2> QED BY LenProperties, KeptFinds
<1> HIDE DEF l
<1>5. l \in Seq(TabRows \cap S) /\ l \in Seq(ToSet(b.tabs) \cap S)
  BY <1>2, <1>3
<1>6. Len(l) \in Nat /\ DOMAIN l = 1 .. Len(l) /\ \A k \in 1 .. Len(l) : l[k] \in TabRows \cap S
  BY <1>5, LenProperties, ElementOfSeq
<1>7. l \in Seq(TabRows)
  <2>1. l \in [1 .. Len(l) -> TabRows \cap S]
    BY <1>5, LenProperties
  <2>2. l \in [1 .. Len(l) -> TabRows]
    BY <2>1
  <2> QED BY <1>6, <2>2, SeqDef
<1>8. [i \in DOMAIN l |-> l[i].id] \in Seq(Nat)
  <2>1. \A k \in 1 .. Len(l) : l[k].id \in Nat
    BY <1>6 DEF TabRows
  <2>2. [i \in 1 .. Len(l) |-> l[i].id] \in [1 .. Len(l) -> Nat]
    BY <2>1
  <2> QED BY <1>6, <2>2, SeqDef
<1>9. \A k \in DOMAIN l : \E i \in DOMAIN b.tabs :
        l[k] = b.tabs[i] /\ IsTabVisibleInCurrentContext(b, b.tabs[i])
  BY <1>6 DEF ToSet
<1>10. ASSUME NEW i \in DOMAIN b.tabs, IsTabVisibleInCurrentContext(b, b.tabs[i])
       PROVE  l # <<>>
  <2>1. b.tabs[i] \in S
    BY <1>10 DEF ToSet
  <2>2. Len(l) > 0
    BY <1>2, <1>4, <2>1
  <2> QED BY <2>2, EmptySeq
<1> QED BY <1>7, <1>8, <1>9, <1>10 DEF l

LEMMA ActiveIsOpen ==
  ASSUME NEW b, Settled(b), b.active # NoTab
  PROVE  \E i \in DOMAIN b.tabs :
           /\ b.tabs[i].id = b.active /\ b.tabs[i].eph = b.private
           /\ TabOf(b, b.active) = b.tabs[i] /\ b.tabs[i] \in TabRows /\ b.tabs \in Seq(TabRows)
<1>1. PICK i \in DOMAIN b.tabs : b.tabs[i].id = b.active /\ b.tabs[i].eph = b.private
  BY DEF Settled
<1>2. TabOf(b, b.active) = b.tabs[i]
  BY <1>1, TabFound DEF Settled
<1>3. b.tabs \in Seq(TabRows)
  BY DEF Settled, Browsers
<1>4. b.tabs[i] \in TabRows
  BY <1>3, ElementOfSeq, LenProperties
<1> QED BY <1>1, <1>2, <1>3, <1>4

LEMMA SnapshotType ==
  ASSUME NEW b, Settled(b)
  PROVE  Snapshot(b) \in [tabs: Seq(TabRows), active: Nat]
<1>1. b.tabs \in Seq(TabRows) /\ b.active \in Nat
  BY DEF Settled, Browsers
<1> DEFINE p == Persistent(b)
           S == {tab \in ToSet(b.tabs) : ~tab.eph}
<1>2. p \in Seq(TabRows \cap S)
  <2>1. p = Kept(b.tabs, S)
    BY DEF Persistent
  <2> HIDE DEF S, p
  <2> QED BY <1>1, <2>1, KeptType
<1> HIDE DEF p
<1>3. p \in Seq(TabRows)
  <2>1. Len(p) \in Nat /\ p \in [1 .. Len(p) -> TabRows \cap S]
    BY <1>2, LenProperties
  <2>2. p \in [1 .. Len(p) -> TabRows]
    BY <2>1
  <2> QED BY <2>1, <2>2, SeqDef
<1>4. p # <<>> => p[1].id \in Nat
  <2>1. Len(p) \in Nat /\ (p # <<>> => Len(p) # 0)
    BY <1>3, LenProperties, EmptySeq
  <2>2. p # <<>> => p[1] \in TabRows
    BY <1>3, <2>1, ElementOfSeq
  <2> QED BY <2>2 DEF TabRows
<1> DEFINE a == CASE b.active = NoTab -> NoTab
                  [] b.active # NoTab /\ ~TabOf(b, b.active).eph -> b.active
                  [] OTHER -> IF p = <<>> THEN NoTab ELSE p[1].id
<1>5. Snapshot(b) = [tabs |-> p, active |-> a]
  BY DEF Snapshot, p
<1>6. a \in Nat
  BY <1>1, <1>4 DEF NoTab
<1> HIDE DEF a
<1> QED BY <1>3, <1>5, <1>6

\* The strip follows the tab, and never has to correct it.
LEMMA WorkspaceSynced ==
  ASSUME NEW b, Settled(b)
  PROVE  LET s == SyncWorkspaceToActiveTab(b)
         IN  /\ Settled(s) /\ SameTabs(b, s) /\ s.disk.sidebar = b.disk.sidebar
             /\ s.disk.session = b.disk.session
             /\ s.current = IF b.active = NoTab THEN b.current ELSE Home(TabOf(b, b.active))
             /\ s.active # NoTab => IsTabVisibleInCurrentContext(s, TabOf(s, s.active))
<1> DEFINE s == SyncWorkspaceToActiveTab(b)
<1>1. CASE b.active = NoTab
  <2>1. s = b
    BY <1>1 DEF SyncWorkspaceToActiveTab
  <2> QED BY <1>1, <2>1 DEF SameTabs
<1>2. CASE b.active # NoTab
  <2>1. PICK i \in DOMAIN b.tabs :
          /\ b.tabs[i].id = b.active /\ b.tabs[i].eph = b.private
          /\ TabOf(b, b.active) = b.tabs[i] /\ b.tabs[i] \in TabRows
    BY <1>2, ActiveIsOpen
  <2> DEFINE ws == Home(b.tabs[i])
             d == [b.disk EXCEPT !.workspace = ws]
  <2>2. ws \in WorkspaceIds
    BY <2>1, HomeIsWorkspace
  <2>3. s = IF ws = b.current THEN b ELSE [b EXCEPT !.current = ws, !.disk = d]
    BY <1>2, <2>1 DEF SyncWorkspaceToActiveTab, IsTabVisible, SetActiveWorkspace
  <2> HIDE DEF ws, s
  <2>4. b \in Browsers /\ b.disk \in Disks /\ b.disk.workspace = b.current
    BY DEF Settled, Browsers
  <2>5. /\ d \in Disks /\ d.workspace = ws /\ d.session = b.disk.session
        /\ d.sidebar = b.disk.sidebar
    BY <2>2, <2>4 DEF Disks
  <2> HIDE DEF d
  <2>6. /\ s \in Browsers /\ SameTabs(b, s) /\ s.current = ws /\ s.disk.workspace = ws
        /\ s.disk.session = b.disk.session /\ s.disk.sidebar = b.disk.sidebar
    BY <2>2, <2>3, <2>4, <2>5 DEF Browsers, SameTabs
  <2>7. Settled(s)
    BY <2>6 DEF Settled, SameTabs
  <2>8. TabOf(s, s.active) = b.tabs[i]
    BY <2>1, <2>6 DEF TabOf, SameTabs
  <2>9. IsTabVisibleInCurrentContext(s, TabOf(s, s.active))
    BY <2>1, <2>6, <2>8 DEF IsTabVisibleInCurrentContext, IsTabVisible, SameTabs, ws
  <2> QED BY <1>2, <2>1, <2>6, <2>7, <2>9 DEF ws, s
<1> QED BY <1>1, <1>2

\* After every change of the session the strip and the sidebar are current, and outside
\* private mode the file is.
LEMMA ObserversNotified ==
  ASSUME NEW b, Settled(b)
  PROVE  LET n == NotifyObservers(b)
         IN  /\ Settled(n) /\ StripIs(n) /\ SameTabs(b, n) /\ n.disk.sidebar = b.disk.sidebar
             /\ n.current = IF b.active = NoTab THEN b.current ELSE Home(TabOf(b, b.active))
             /\ b.active = NoTab \/ b.private => n.disk.session = b.disk.session
             /\ ~(b.active = NoTab \/ b.private) => n.disk.session = Snapshot(n)
<1> DEFINE s == SyncWorkspaceToActiveTab(b)
           rows == [i \in DOMAIN Listed(s) |-> Listed(s)[i].id]
           c == Refresh(RebuildTabs(s))
           n == NotifyObservers(b)
<1>1. /\ Settled(s) /\ SameTabs(b, s) /\ s.disk.sidebar = b.disk.sidebar
      /\ s.disk.session = b.disk.session
      /\ s.current = IF b.active = NoTab THEN b.current ELSE Home(TabOf(b, b.active))
      /\ s.active # NoTab => IsTabVisibleInCurrentContext(s, TabOf(s, s.active))
  BY WorkspaceSynced
<1>2. n = Recorded(c)
  BY DEF NotifyObservers
<1> HIDE DEF s, n
<1>3. rows \in Seq(Nat)
  BY <1>1, ListedTabs DEF Settled, Browsers
<1>4. c = [s EXCEPT !.rows = rows, !.marked = s.current]
  BY <1>1 DEF Refresh, RebuildTabs, Settled, Browsers
<1> HIDE DEF rows, c
<1>5. /\ c \in Browsers /\ SameTabs(s, c) /\ c.current = s.current /\ c.marked = s.current
      /\ c.rows = rows /\ c.disk = s.disk
  BY <1>1, <1>3, <1>4 DEF Browsers, SameTabs, Settled
<1>6. Settled(c)
  BY <1>1, <1>5 DEF Settled, SameTabs
<1>7. Listed(c) = Listed(s) /\ TabOf(c, c.active) = TabOf(s, s.active)
  BY <1>5, ListedSame DEF SameTabs, TabOf
<1>8. StripIs(c)
  BY <1>1, <1>5, <1>7 DEF StripIs, rows, SameTabs, IsTabVisibleInCurrentContext, IsTabVisible
<1>9. b.active # NoTab => TabOf(c, c.active).eph = b.private /\ c.active # NoTab
  <2> SUFFICES ASSUME b.active # NoTab PROVE TabOf(c, c.active).eph = b.private /\ c.active # NoTab
    OBVIOUS
  <2>1. c.active # NoTab /\ c.private = b.private
    BY <1>1, <1>5 DEF SameTabs
  <2> QED BY <1>6, <2>1, ActiveIsOpen
<1>10. b.private \in BOOLEAN /\ c.private = b.private /\ c.active = b.active
  BY <1>1, <1>5 DEF SameTabs, Settled, Browsers
<1>11. CASE b.active = NoTab \/ b.private
  <2>1. n = c
    BY <1>2, <1>9, <1>10, <1>11 DEF Recorded
  <2> QED BY <1>1, <1>5, <1>6, <1>8, <1>11, <2>1 DEF SameTabs, n
<1>12. CASE ~(b.active = NoTab \/ b.private)
  <2> DEFINE d == [c.disk EXCEPT !.session = Snapshot(c)]
  <2>1. n = [c EXCEPT !.disk = d]
    BY <1>2, <1>9, <1>10, <1>12 DEF Recorded
  <2>2. c.disk \in Disks /\ Snapshot(c) \in [tabs: Seq(TabRows), active: Nat]
    BY <1>5, <1>6, SnapshotType DEF Browsers
  <2>3. /\ d \in Disks /\ d.workspace = c.disk.workspace /\ d.sidebar = c.disk.sidebar
        /\ d.session = Snapshot(c)
    <3> DEFINE x == Snapshot(c)
    <3>1. d = [c.disk EXCEPT !.session = x] /\ x \in [tabs: Seq(TabRows), active: Nat]
      BY <2>2
    <3> HIDE DEF x, d
    <3>2. d \in Disks /\ d.workspace = c.disk.workspace /\ d.sidebar = c.disk.sidebar /\ d.session = x
      BY <2>2, <3>1 DEF Disks
    <3> QED BY <3>2 DEF x
  <2> HIDE DEF d
  <2>4. /\ n \in Browsers /\ SameTabs(c, n) /\ n.current = c.current /\ n.marked = c.marked
        /\ n.rows = c.rows /\ n.disk = d
    BY <1>5, <2>1, <2>3 DEF Browsers, SameTabs
  <2>5. Settled(n)
    BY <1>6, <2>3, <2>4 DEF Settled, SameTabs
  <2>6. Listed(n) = Listed(c) /\ TabOf(n, n.active) = TabOf(c, c.active)
    BY <2>4, ListedSame DEF SameTabs, TabOf
  <2>7. StripIs(n)
    BY <1>8, <2>4, <2>6 DEF StripIs, SameTabs, IsTabVisibleInCurrentContext, IsTabVisible
  <2>8. Snapshot(n) = Snapshot(c)
    BY <2>4 DEF SameTabs, Snapshot, Persistent, TabOf
  <2>9. SameTabs(b, n) /\ n.disk.sidebar = b.disk.sidebar /\ n.current = s.current
        /\ n.disk.session = Snapshot(n)
    BY <1>1, <1>5, <2>3, <2>4, <2>8 DEF SameTabs
  <2> QED BY <1>1, <1>12, <2>5, <2>7, <2>9 DEF n
<1> QED BY <1>11, <1>12

-----------------------------------------------------------------------------
\* The inductive invariant.

PersistentRows == {tab \in TabRows : ~tab.eph}

\* A session file that can be restored.
Restorable(tabs, made) ==
  IdsSound(tabs, made) /\ \A i \in DOMAIN tabs : ~tabs[i].eph

\* The file has the persistent tabs, as long as there are any.
PersistentSaved(b) == Persistent(b) # <<>> => b.disk.session.tabs = Persistent(b)

\* What holds in the middle of a command as well.
Base(b) ==
  /\ b \in Browsers /\ IdsSound(b.tabs, b.made) /\ b.disk.workspace = b.current
  /\ ~b.private => \A i \in DOMAIN b.tabs : ~b.tabs[i].eph
  /\ Restorable(b.disk.session.tabs, b.made)
  /\ b.private => PersistentSaved(b)

\* And when the observers are told.
Ready(b) ==
  /\ Base(b)
  /\ b.active # NoTab =>
       \E i \in DOMAIN b.tabs : b.tabs[i].id = b.active /\ b.tabs[i].eph = b.private
  /\ b.private \/ b.tabs # <<>> => b.active # NoTab

BrowserSafe(b) == Ready(b) /\ StripIs(b) /\ PersistentSaved(b)

LEMMA ReadyIsSettled ==
  ASSUME NEW b, Ready(b)
  PROVE  Settled(b)
BY DEF Ready, Base, Settled

LEMMA BrowserParts ==
  ASSUME NEW b, Base(b)
  PROVE  /\ b.tabs \in Seq(TabRows) /\ Len(b.tabs) \in Nat /\ DOMAIN b.tabs = 1 .. Len(b.tabs)
         /\ \A i \in DOMAIN b.tabs : b.tabs[i] \in TabRows /\ b.tabs[i].id \in Nat \ {0}
         /\ b.active \in Nat /\ b.closed \in Seq(ClosedRows) /\ b.made \in Nat
         /\ b.current \in WorkspaceIds /\ b.private \in BOOLEAN /\ b.disk \in Disks
         /\ b.disk.session.tabs \in Seq(TabRows) /\ b.disk.session.active \in Nat
<1>1. /\ b.tabs \in Seq(TabRows) /\ b.active \in Nat /\ b.closed \in Seq(ClosedRows)
      /\ b.made \in Nat /\ b.current \in WorkspaceIds /\ b.private \in BOOLEAN /\ b.disk \in Disks
  BY DEF Base, Browsers
<1>2. Len(b.tabs) \in Nat /\ DOMAIN b.tabs = 1 .. Len(b.tabs)
  BY <1>1, LenProperties
<1>3. \A i \in DOMAIN b.tabs : b.tabs[i] \in TabRows
  BY <1>1, <1>2, ElementOfSeq
<1>4. \A i \in DOMAIN b.tabs : b.tabs[i].id \in Nat \ {0}
  BY <1>1 DEF Base, IdsSound
<1>5. b.disk.session \in [tabs: Seq(TabRows), active: Nat]
  BY <1>1 DEF Disks
<1> QED BY <1>1, <1>2, <1>3, <1>4, <1>5

LEMMA PersistentIs ==
  ASSUME NEW b, b.tabs \in Seq(TabRows)
  PROVE  Persistent(b) = Kept(b.tabs, PersistentRows)
<1> DEFINE S == {tab \in ToSet(b.tabs) : ~tab.eph}
<1>1. \A i \in 1 .. Len(b.tabs) : b.tabs[i] \in S <=> b.tabs[i] \in PersistentRows
  <2> SUFFICES ASSUME NEW i \in 1 .. Len(b.tabs)
               PROVE  b.tabs[i] \in S <=> b.tabs[i] \in PersistentRows
    OBVIOUS
  <2>1. b.tabs[i] \in TabRows /\ i \in DOMAIN b.tabs
    BY ElementOfSeq, LenProperties
  <2>2. b.tabs[i] \in ToSet(b.tabs)
    BY <2>1 DEF ToSet
  <2> QED BY <2>1, <2>2 DEF PersistentRows
<1>2. Persistent(b) = Kept(b.tabs, S)
  BY DEF Persistent
<1> HIDE DEF S
<1> QED BY <1>1, <1>2, KeptSame

\* Outside private mode all tabs are persistent.
LEMMA AllPersistent ==
  ASSUME NEW b, Base(b), ~b.private
  PROVE  Persistent(b) = b.tabs
<1>1. \A i \in 1 .. Len(b.tabs) : b.tabs[i] \in PersistentRows
  BY BrowserParts DEF Base, PersistentRows
<1> QED BY <1>1, BrowserParts, PersistentIs, KeptAll

LEMMA NoTabsNoPersistent ==
  ASSUME NEW b, b.tabs = <<>>
  PROVE  Persistent(b) = <<>>
<1>1. <<>> \in Seq(TabRows) /\ Len(<<>>) = 0
  BY EmptySeq
<1> DEFINE e == b.tabs
<1>2. e \in Seq(TabRows) /\ Len(e) = 0
  BY <1>1
<1> HIDE DEF e
<1>3. \A i \in 1 .. Len(e) : e[i] \in PersistentRows
  BY <1>2
<1>4. Kept(e, PersistentRows) = e
  BY <1>2, <1>3, KeptAll
<1> QED BY <1>2, <1>4, PersistentIs DEF e

\* The observers leave a browser sound that is ready for them.
LEMMA BaseNotified ==
  ASSUME NEW b, Base(b), Settled(b)
  PROVE  LET n == NotifyObservers(b)
         IN  /\ Base(n) /\ SameTabs(b, n) /\ StripIs(n)
             /\ (b.private => PersistentSaved(n))
             /\ (b.active # NoTab => PersistentSaved(n))
             /\ n.disk.sidebar = b.disk.sidebar
             /\ (b.active # NoTab => n.current = Home(TabOf(b, b.active)))
             /\ (b.active = NoTab => n.current = b.current)
<1> DEFINE n == NotifyObservers(b)
<1>1. /\ Settled(n) /\ StripIs(n) /\ SameTabs(b, n) /\ n.disk.sidebar = b.disk.sidebar
      /\ n.current = IF b.active = NoTab THEN b.current ELSE Home(TabOf(b, b.active))
      /\ b.active = NoTab \/ b.private => n.disk.session = b.disk.session
      /\ ~(b.active = NoTab \/ b.private) => n.disk.session = Snapshot(n)
  BY ObserversNotified
<1> HIDE DEF n
<1>2. Persistent(n) = Persistent(b)
  BY <1>1 DEF SameTabs, Persistent
<1>3. CASE b.active = NoTab \/ b.private
  BY <1>1, <1>2, <1>3 DEF Base, Settled, SameTabs, PersistentSaved, n
<1>4. CASE ~(b.active = NoTab \/ b.private)
  <2>1. n.disk.session.tabs = Persistent(n)
    BY <1>1, <1>4 DEF Snapshot
  <2>2. Persistent(n) = b.tabs
    BY <1>2, <1>4, AllPersistent
  <2>3. Restorable(n.disk.session.tabs, n.made)
    BY <1>1, <1>4, <2>1, <2>2 DEF Restorable, Base, SameTabs
  <2>4. Base(n) /\ PersistentSaved(n)
    BY <1>1, <1>4, <2>1, <2>3 DEF Base, Settled, SameTabs, PersistentSaved
  <2> QED BY <1>1, <1>4, <2>4 DEF n
<1> QED BY <1>3, <1>4

LEMMA ReadyNotified ==
  ASSUME NEW b, Ready(b)
  PROVE  LET n == NotifyObservers(b) IN BrowserSafe(n) /\ SameTabs(b, n)
<1> DEFINE n == NotifyObservers(b)
<1>1. /\ Base(n) /\ SameTabs(b, n) /\ StripIs(n)
      /\ (b.private => PersistentSaved(n)) /\ (b.active # NoTab => PersistentSaved(n))
  BY ReadyIsSettled, BaseNotified DEF Ready
<1> HIDE DEF n
<1>2. PersistentSaved(n)
  <2>1. CASE b.active = NoTab /\ ~b.private
    <3>1. n.tabs = <<>>
      BY <1>1, <2>1 DEF Ready, SameTabs
    <3> QED BY <3>1, NoTabsNoPersistent DEF PersistentSaved
  <2> QED BY <1>1, <2>1
<1>3. Ready(n)
  BY <1>1 DEF Ready, SameTabs
<1> QED BY <1>1, <1>2, <1>3 DEF BrowserSafe, n

-----------------------------------------------------------------------------
\* The session's calls.

LEMMA TabAdded ==
  ASSUME NEW b, Base(b), NEW ws \in WorkspaceIds \cup {NoWorkspace}, NEW eph \in BOOLEAN,
         eph = b.private
  PROVE  LET d == AddTab(b, ws, eph)
         IN  /\ Ready(d) /\ d.private = b.private /\ d.current = b.current /\ d.disk = b.disk
             /\ d.tabs = Append(b.tabs, [id |-> b.made + 1, ws |-> ws, eph |-> eph])
             /\ d.active = b.made + 1
<1> DEFINE tab == [id |-> b.made + 1, ws |-> ws, eph |-> eph]
           tabs == Append(b.tabs, tab)
           n == Len(b.tabs)
           d == AddTab(b, ws, eph)
<1>1. /\ b.tabs \in Seq(TabRows) /\ n \in Nat /\ DOMAIN b.tabs = 1 .. n /\ b.made \in Nat
      /\ b.private \in BOOLEAN /\ b \in Browsers
  BY BrowserParts DEF Base
<1>2. tab \in TabRows /\ tab.id = b.made + 1 /\ tab.eph = eph
  BY <1>1 DEF TabRows
<1>3. d = [b EXCEPT !.tabs = tabs, !.made = b.made + 1, !.active = b.made + 1]
  BY DEF AddTab
<1> HIDE DEF tab
<1>4. /\ tabs \in Seq(TabRows) /\ Len(tabs) = n + 1 /\ tabs[n + 1] = tab
      /\ \A i \in 1 .. n : tabs[i] = b.tabs[i]
  BY <1>1, <1>2, AppendProperties
<1>5. Kept(tabs, PersistentRows)
        = IF tab \in PersistentRows THEN Append(Kept(b.tabs, PersistentRows), tab)
          ELSE Kept(b.tabs, PersistentRows)
  BY <1>1, <1>2, KeptAppend, SMTT(40), ZenonT(20)
<1> HIDE DEF tabs, d
<1>6. /\ d \in Browsers /\ d.tabs = tabs /\ d.made = b.made + 1 /\ d.active = b.made + 1
      /\ d.current = b.current /\ d.private = b.private /\ d.disk = b.disk
  <2> DEFINE m == b.made + 1
  <2>1. m \in Nat /\ d = [b EXCEPT !.tabs = tabs, !.made = m, !.active = m]
    BY <1>1, <1>3
  <2> HIDE DEF m
  <2>2. /\ d \in Browsers /\ d.tabs = tabs /\ d.made = m /\ d.active = m
        /\ d.current = b.current /\ d.private = b.private /\ d.disk = b.disk
    BY <1>1, <1>4, <2>1 DEF Browsers
  <2> QED BY <2>2 DEF m
<1> HIDE DEF n
<1>7. DOMAIN tabs = 1 .. n + 1 /\ 1 .. n + 1 = (1 .. n) \cup {n + 1}
  BY <1>1, <1>4, LenProperties
<1>8. \A i \in 1 .. n : b.tabs[i].id \in 1 .. b.made
  BY <1>1 DEF Base, IdsSound
<1>9. IdsSound(tabs, b.made + 1)
  <2>1. \A i \in 1 .. n : tabs[i].id \in 1 .. b.made
    BY <1>4, <1>8
  <2>2. tabs[n + 1].id = b.made + 1
    BY <1>2, <1>4
  <2>3. \A i \in DOMAIN tabs : tabs[i].id \in 1 .. b.made + 1
    BY <1>1, <1>7, <2>1, <2>2
  <2>4. \A i, j \in 1 .. n : tabs[i].id = tabs[j].id => i = j
    BY <1>1, <1>4 DEF Base, IdsSound
  <2>5. \A i \in 1 .. n : tabs[i].id # tabs[n + 1].id
    BY <1>1, <2>1, <2>2
  <2>6. \A i, j \in DOMAIN tabs : tabs[i].id = tabs[j].id => i = j
    BY <1>7, <2>4, <2>5
  <2> QED BY <2>3, <2>6 DEF IdsSound
<1>10. Restorable(b.disk.session.tabs, b.made + 1)
  <2>1. 1 .. b.made \subseteq 1 .. b.made + 1
    BY <1>1
  <2> QED BY <2>1 DEF Base, Restorable, IdsSound
<1>11. ~b.private => \A i \in DOMAIN tabs : ~tabs[i].eph
  BY <1>1, <1>2, <1>4, <1>7 DEF Base
<1>12. b.private => PersistentSaved(d)
  <2> SUFFICES ASSUME b.private PROVE PersistentSaved(d)
    OBVIOUS
  <2>1. tab \notin PersistentRows
    BY <1>2 DEF PersistentRows
  <2>2. Persistent(d) = Persistent(b)
    BY <1>1, <1>4, <1>5, <1>6, <2>1, PersistentIs
  <2> QED BY <1>6, <2>2 DEF Base, PersistentSaved
<1>13. Base(d)
  BY <1>6, <1>9, <1>10, <1>11, <1>12 DEF Base
<1>14. /\ n + 1 \in DOMAIN d.tabs /\ d.tabs[n + 1].id = d.active
       /\ d.tabs[n + 1].eph = d.private /\ d.active # NoTab
  BY <1>1, <1>2, <1>4, <1>6, <1>7 DEF NoTab
<1>15. Ready(d)
  BY <1>13, <1>14 DEF Ready
<1> QED BY <1>6, <1>15 DEF d, tabs, tab

LEMMA TabOpened ==
  ASSUME NEW b, Base(b), NEW ws \in WorkspaceIds \cup {NoWorkspace}, NEW eph \in BOOLEAN,
         eph = b.private
  PROVE  BrowserSafe(OpenTab(b, ws, eph)) /\ OpenTab(b, ws, eph).private = b.private
<1> DEFINE d == AddTab(b, ws, eph)
<1>1. Ready(d) /\ d.private = b.private
  BY TabAdded
<1> HIDE DEF d
<1> DEFINE n == NotifyObservers(d)
<1>2. BrowserSafe(n) /\ SameTabs(d, n)
  BY <1>1, ReadyNotified
<1>3. OpenTab(b, ws, eph) = n
  BY DEF OpenTab, d
<1> HIDE DEF n
<1> QED BY <1>1, <1>2, <1>3 DEF SameTabs

LEMMA ActiveChanged ==
  ASSUME NEW b, Base(b), NEW i \in DOMAIN b.tabs, b.tabs[i].eph = b.private
  PROVE  LET d == [b EXCEPT !.active = b.tabs[i].id] IN Ready(d) /\ d.private = b.private
<1> DEFINE id == b.tabs[i].id
           d == [b EXCEPT !.active = id]
<1>1. id \in Nat \ {0} /\ b \in Browsers
  BY BrowserParts DEF Base
<1> HIDE DEF id
<1>2. /\ d \in Browsers /\ d.tabs = b.tabs /\ d.made = b.made /\ d.active = id
      /\ d.current = b.current /\ d.private = b.private /\ d.disk = b.disk
  BY <1>1 DEF Browsers
<1> HIDE DEF d
<1>3. Persistent(d) = Persistent(b)
  BY <1>2 DEF Persistent
<1>4. Base(d)
  BY <1>2, <1>3 DEF Base, PersistentSaved
<1>5. d.active # NoTab
  BY <1>1, <1>2 DEF NoTab
<1>6. Ready(d)
  BY <1>2, <1>4, <1>5 DEF Ready, id
<1> QED BY <1>2, <1>6 DEF d, id

\* A tab of the mode comes up; if it is the active one, nothing happens.
LEMMA TabActivated ==
  ASSUME NEW b, Base(b), NEW i \in DOMAIN b.tabs, b.tabs[i].eph = b.private,
         BrowserSafe(b) \/ b.active # b.tabs[i].id
  PROVE  BrowserSafe(ActivateTab(b, b.tabs[i].id))
<1> DEFINE id == b.tabs[i].id
           d == [b EXCEPT !.active = id]
<1>1. IsOpen(b, id)
  BY TabFound DEF Base
<1>2. Ready(d)
  BY ActiveChanged
<1> HIDE DEF id, d
<1>3. BrowserSafe(NotifyObservers(d))
  BY <1>2, ReadyNotified
<1>4. ActivateTab(b, id) = IF b.active = id THEN b ELSE NotifyObservers(d)
  BY <1>1 DEF ActivateTab, d
<1> QED BY <1>3, <1>4 DEF id

\* Any tab that is listed is of the mode.
LEMMA ListedActivated ==
  ASSUME NEW b, BrowserSafe(b), NEW k \in DOMAIN Listed(b)
  PROVE  BrowserSafe(ActivateTab(b, Listed(b)[k].id))
<1>1. Base(b) /\ b.tabs \in Seq(TabRows)
  BY BrowserParts DEF BrowserSafe, Ready
<1>2. PICK i \in DOMAIN b.tabs :
        Listed(b)[k] = b.tabs[i] /\ IsTabVisibleInCurrentContext(b, b.tabs[i])
  BY <1>1, ListedTabs
<1>3. b.tabs[i].eph = b.private
  BY <1>2 DEF IsTabVisibleInCurrentContext, IsTabVisible
<1> QED BY <1>1, <1>2, <1>3, TabActivated

\* d has the tabs of b but the i-th.
LostTab(b, i, d) ==
  /\ \A k \in DOMAIN d.tabs : \E j \in DOMAIN b.tabs : j # i /\ d.tabs[k] = b.tabs[j]
  /\ \A j \in DOMAIN b.tabs : j # i => \E k \in DOMAIN d.tabs : d.tabs[k] = b.tabs[j]

Without(b, i, next, closed) ==
  [b EXCEPT !.tabs = RemoveAt(b.tabs, i), !.active = next, !.closed = closed]

\* What CloseTab hands to the observers, for the i-th tab.
ClosedTo(b, i, page, fallback, d) ==
  /\ CloseTab(b, b.tabs[i].id, page, fallback) = NotifyObservers(d)
  /\ Base(d) /\ d.private = b.private /\ d.current = b.current /\ LostTab(b, i, d)
  /\ b.active # b.tabs[i].id => d.active = b.active
  /\ b.active = b.tabs[i].id /\ (~fallback \/ d.tabs = <<>>) => d.active = NoTab
  /\ b.active = b.tabs[i].id /\ fallback /\ d.tabs # <<>> =>
       \E k \in DOMAIN d.tabs : d.active = d.tabs[k].id

\* Erasing a tab, and whatever is remembered of it.
LEMMA TabRemoved ==
  ASSUME NEW b, Base(b), NEW i \in DOMAIN b.tabs, b.tabs[i].eph = b.private,
         NEW next \in Nat, NEW closed \in Seq(ClosedRows), NEW d,
         d = Without(b, i, next, closed)
  PROVE  /\ Base(d) /\ d.private = b.private /\ d.active = next /\ d.current = b.current
         /\ d.tabs = RemoveAt(b.tabs, i) /\ LostTab(b, i, d)
<1> DEFINE rest == RemoveAt(b.tabs, i)
           n == Len(b.tabs)
<1>1. /\ b.tabs \in Seq(TabRows) /\ n \in Nat /\ DOMAIN b.tabs = 1 .. n /\ b.made \in Nat
      /\ b.private \in BOOLEAN /\ b \in Browsers
  BY BrowserParts DEF Base
<1>2. /\ rest \in Seq(TabRows) /\ Len(rest) = n - 1
      /\ \A k \in 1 .. n - 1 : rest[k] = IF k < i THEN b.tabs[k] ELSE b.tabs[k + 1]
  BY <1>1, RemoveAtProperties
<1>3. b.tabs[i] \notin PersistentRows => Kept(rest, PersistentRows) = Kept(b.tabs, PersistentRows)
  BY <1>1, KeptRemove
<1>a. d = [b EXCEPT !.tabs = rest, !.active = next, !.closed = closed]
  BY DEF Without
<1> HIDE DEF rest
<1>4. /\ d \in Browsers /\ d.tabs = rest /\ d.made = b.made /\ d.active = next
      /\ d.current = b.current /\ d.private = b.private /\ d.disk = b.disk
  BY <1>1, <1>2, <1>a DEF Browsers
<1>5. DOMAIN rest = 1 .. n - 1
  BY <1>1, <1>2, LenProperties
<1> HIDE DEF n
<1>6. ASSUME NEW k \in DOMAIN rest
      PROVE  \E j \in DOMAIN b.tabs : j # i /\ rest[k] = b.tabs[j] /\ j = (IF k < i THEN k ELSE k + 1)
  BY <1>1, <1>2, <1>5, <1>6
<1>7. ASSUME NEW j \in DOMAIN b.tabs, j # i
      PROVE  \E k \in DOMAIN rest : rest[k] = b.tabs[j]
  <2> DEFINE k == IF j < i THEN j ELSE j - 1
  <2>1. k \in DOMAIN rest /\ (IF k < i THEN k ELSE k + 1) = j
    BY <1>1, <1>5, <1>7
  <2> QED BY <1>2, <1>5, <2>1
<1>8. IdsSound(rest, b.made)
  <2>1. \A k \in DOMAIN rest : rest[k].id \in 1 .. b.made
    BY <1>6 DEF Base, IdsSound
  <2>2. ASSUME NEW k \in DOMAIN rest, NEW l \in DOMAIN rest, rest[k].id = rest[l].id
        PROVE  k = l
    <3>1. PICK x \in DOMAIN b.tabs : rest[k] = b.tabs[x] /\ x = IF k < i THEN k ELSE k + 1
      BY <1>6
    <3>2. PICK y \in DOMAIN b.tabs : rest[l] = b.tabs[y] /\ y = IF l < i THEN l ELSE l + 1
      BY <1>6
    <3>3. x = y
      BY <2>2, <3>1, <3>2 DEF Base, IdsSound
    <3> QED BY <1>1, <1>5, <3>1, <3>2, <3>3
  <2> QED BY <2>1, <2>2 DEF IdsSound
<1>9. ~d.private => \A k \in DOMAIN d.tabs : ~d.tabs[k].eph
  BY <1>4, <1>6 DEF Base
<1>10. d.private => PersistentSaved(d)
  <2> SUFFICES ASSUME b.private PROVE PersistentSaved(d)
    BY <1>4
  <2>1. b.tabs[i] \notin PersistentRows
    BY DEF PersistentRows
  <2>2. Persistent(d) = Persistent(b)
    BY <1>1, <1>2, <1>3, <1>4, <2>1, PersistentIs
  <2> QED BY <1>4, <2>2 DEF Base, PersistentSaved
<1>11. Base(d)
  BY <1>4, <1>8, <1>9, <1>10 DEF Base
<1> QED BY <1>4, <1>6, <1>7, <1>11 DEF LostTab, rest

LEMMA ClosedTyped ==
  ASSUME NEW b, Base(b), NEW tab \in TabRows
  PROVE  Remembered(b, tab) \in Seq(ClosedRows)
<1> DEFINE x == [ws |-> tab.ws, eph |-> tab.eph]
           all == Append(b.closed, x)
<1>1. b.closed \in Seq(ClosedRows) /\ x \in ClosedRows
  BY BrowserParts DEF TabRows, ClosedRows
<1> HIDE DEF x
<1>2. all \in Seq(ClosedRows) /\ Len(all) = Len(b.closed) + 1 /\ Len(b.closed) \in Nat
  BY <1>1, AppendProperties, LenProperties
<1> HIDE DEF all
<1>3. all # <<>>
  BY <1>2, EmptySeq
<1>4. Tail(all) \in Seq(ClosedRows)
  BY <1>2, <1>3, HeadTailProperties
<1> QED BY <1>2, <1>4 DEF Remembered, all, x

\* What CloseTab does to an open tab of the mode, whoever comes next.
LEMMA TabClosed ==
  ASSUME NEW b, Base(b), NEW i \in DOMAIN b.tabs, b.tabs[i].eph = b.private,
         NEW page \in BOOLEAN, NEW fallback \in BOOLEAN
  PROVE  \E d : ClosedTo(b, i, page, fallback, d)
<1> DEFINE id == b.tabs[i].id
           rest == RemoveAt(b.tabs, i)
           n == Len(rest)
           next == CASE b.active # id -> b.active
                     [] b.active = id /\ (~fallback \/ rest = <<>>) -> NoTab
                     [] OTHER -> rest[IF i <= n THEN i ELSE n].id
           closed == IF page THEN Remembered(b, TabOf(b, id)) ELSE b.closed
           d == [b EXCEPT !.tabs = rest, !.active = next, !.closed = closed]
<1>1. /\ TabOf(b, id) = b.tabs[i] /\ b.tabs[i] \in TabRows /\ PositionOf(b, id) = i
      /\ IsOpen(b, id)
  BY TabFound, BrowserParts DEF Base, IdsSound, PositionOf
<1>2. CloseTab(b, id, page, fallback) = NotifyObservers(d)
  BY <1>1 DEF CloseTab
<1>3. closed \in Seq(ClosedRows)
  BY <1>1, ClosedTyped, BrowserParts
<1>4. rest \in Seq(TabRows) /\ n \in Nat /\ DOMAIN rest = 1 .. n /\ i \in 1 .. Len(b.tabs)
  BY RemoveAtProperties, BrowserParts, LenProperties
<1>5. rest # <<>> => (IF i <= n THEN i ELSE n) \in DOMAIN rest
  BY <1>4, EmptySeq
<1> HIDE DEF closed
<1>6. next \in Nat
  <2>1. b.active \in Nat /\ NoTab \in Nat
    BY BrowserParts DEF NoTab
  <2>2. \A k \in DOMAIN rest : rest[k].id \in Nat
    <3> HIDE DEF rest
    <3>1. \A k \in DOMAIN rest : rest[k] \in TabRows
      BY <1>4, ElementOfSeq
    <3> QED BY <3>1 DEF TabRows
  <2> QED BY <1>5, <2>1, <2>2
<1>7. /\ b.active # id => next = b.active
      /\ b.active = id /\ (~fallback \/ rest = <<>>) => next = NoTab
      /\ b.active = id /\ fallback /\ rest # <<>> => \E k \in DOMAIN rest : next = rest[k].id
  BY <1>5
<1> HIDE DEF next
<1>8. d = Without(b, i, next, closed)
  BY DEF Without
<1> HIDE DEF d
<1>9. /\ Base(d) /\ d.private = b.private /\ d.active = next /\ d.current = b.current
      /\ d.tabs = rest /\ LostTab(b, i, d)
  BY <1>3, <1>6, <1>8, TabRemoved
<1> HIDE DEF rest
<1>10. ClosedTo(b, i, page, fallback, d)
  BY <1>2, <1>7, <1>9 DEF ClosedTo
<1> QED BY <1>10

\* Outside private mode a neighbour takes over.
LEMMA ClosedOutside ==
  ASSUME NEW b, BrowserSafe(b), ~b.private, NEW id, NEW page \in BOOLEAN
  PROVE  BrowserSafe(CloseTab(b, id, page, TRUE))
<1>1. Base(b) /\ Ready(b)
  BY DEF BrowserSafe, Ready
<1>2. CASE ~IsOpen(b, id)
  BY <1>2 DEF CloseTab
<1>3. CASE IsOpen(b, id)
  <2>1. PICK i \in DOMAIN b.tabs : b.tabs[i].id = id
    BY <1>3 DEF IsOpen
  <2>2. b.tabs[i].eph = b.private /\ b.private \in BOOLEAN
    BY <1>1, BrowserParts DEF Base, TabRows
  <2>3. PICK fallback \in BOOLEAN : fallback = TRUE
    OBVIOUS
  <2>4. PICK d : ClosedTo(b, i, page, fallback, d)
    BY <1>1, <2>2, TabClosed
  <2>5. b.tabs # <<>>
    BY EmptySeq
  <2>6. PICK a \in DOMAIN b.tabs : b.tabs[a].id = b.active /\ b.tabs[a].eph = b.private
    BY <1>1, <2>5 DEF Ready
  <2>7. \A k \in DOMAIN d.tabs : d.tabs[k].eph = d.private /\ d.tabs[k].id # NoTab
    <3>1. \A k \in DOMAIN d.tabs : ~d.tabs[k].eph /\ d.tabs[k] \in TabRows /\ d.tabs[k].id # 0
      BY <2>4, BrowserParts DEF Base, ClosedTo
    <3> QED BY <2>2, <2>4, <3>1 DEF NoTab, TabRows, ClosedTo
  <2>8. CASE d.tabs = <<>>
    <3>1. b.active = b.tabs[i].id
      <4>1. DOMAIN d.tabs = {}
        BY <2>8
      <4> QED BY <2>1, <2>4, <2>6, <4>1 DEF ClosedTo, LostTab
    <3>2. Ready(d)
      BY <2>1, <2>4, <2>8, <3>1, <2>2 DEF Ready, ClosedTo
    <3> QED BY <2>1, <2>3, <2>4, <3>2, ReadyNotified DEF ClosedTo
  <2>9. CASE d.tabs # <<>>
    <3>1. \E k \in DOMAIN d.tabs : d.active = d.tabs[k].id
      BY <2>3, <2>4, <2>6, <2>9 DEF ClosedTo, LostTab
    <3>2. Ready(d)
      BY <2>4, <2>7, <3>1 DEF Ready, ClosedTo
    <3> QED BY <2>1, <2>3, <2>4, <3>2, ReadyNotified DEF ClosedTo
  <2> QED BY <2>8, <2>9
<1> QED BY <1>2, <1>3

LEMMA EphemeralTabs ==
  ASSUME NEW b, Base(b), Ephemeral(b) # <<>>
  PROVE  \E i \in DOMAIN b.tabs : Ephemeral(b)[1] = b.tabs[i] /\ b.tabs[i].eph = TRUE
<1> DEFINE S == {tab \in ToSet(b.tabs) : tab.eph}
           e == Ephemeral(b)
<1>1. b.tabs \in Seq(ToSet(b.tabs)) /\ b.tabs \in Seq(TabRows)
  <2>1. /\ Len(b.tabs) \in Nat /\ DOMAIN b.tabs = 1 .. Len(b.tabs)
        /\ b.tabs \in [1 .. Len(b.tabs) -> TabRows] /\ b.tabs \in Seq(TabRows)
    BY BrowserParts, LenProperties
  <2>2. b.tabs \in [1 .. Len(b.tabs) -> ToSet(b.tabs)]
    BY <2>1 DEF ToSet
  <2> QED BY <2>1, <2>2, SeqDef
<1>2. e = Kept(b.tabs, S)
  BY DEF Ephemeral
<1>3. Kept(b.tabs, S) \in Seq(TabRows \cap S) /\ Kept(b.tabs, S) \in Seq(ToSet(b.tabs) \cap S)
  <2> HIDE DEF S
  <2> QED BY <1>1, KeptType
<1> HIDE DEF e
<1>4. Len(e) \in Nat /\ Len(e) # 0
  BY <1>2, <1>3, LenProperties, EmptySeq DEF e
<1>5. e[1] \in TabRows \cap S
  BY <1>2, <1>3, <1>4, ElementOfSeq
<1> QED BY <1>5 DEF ToSet, TabRows, e

\* The active tab of private mode closes: another private one or a new one takes over.
LEMMA ClosedInside ==
  ASSUME NEW b, BrowserSafe(b), b.private, NEW id, NEW page \in BOOLEAN
  PROVE  BrowserSafe(CloseInPrivateMode(b, id, page))
<1>1. Base(b) /\ Ready(b)
  BY DEF BrowserSafe, Ready
<1>2. CASE ~IsOpen(b, id)
  BY <1>2 DEF CloseInPrivateMode
<1>3. CASE IsOpen(b, id)
  <2>1. PICK i \in DOMAIN b.tabs : b.tabs[i].id = id
    BY <1>3 DEF IsOpen
  <2>2. TabOf(b, id) = b.tabs[i] /\ b.tabs[i].eph \in BOOLEAN /\ b.private = TRUE
    BY <1>1, <2>1, TabFound, BrowserParts DEF Base, TabRows
  <2>3. CASE ~b.tabs[i].eph
    BY <2>2, <2>3 DEF CloseInPrivateMode
  <2>4. CASE b.tabs[i].eph
    <3>1. b.tabs[i].eph = b.private
      BY <2>2, <2>4
    <3>2. PICK fallback \in BOOLEAN : fallback = FALSE
      OBVIOUS
    <3>3. PICK d : ClosedTo(b, i, page, fallback, d)
      BY <1>1, <3>1, TabClosed
    <3> DEFINE n == NotifyObservers(d)
    <3>4. CloseTab(b, id, page, FALSE) = n
      BY <2>1, <3>2, <3>3 DEF ClosedTo
    <3>5. PICK a \in DOMAIN b.tabs : b.tabs[a].id = b.active /\ b.tabs[a].eph = b.private
      BY <1>1, <2>2 DEF Ready
    <3>6. b.active # NoTab
      BY <1>1, <2>2 DEF Ready
    <3>7. CASE b.active # id
      <4>1. Ready(d)
        BY <2>1, <3>3, <3>5, <3>6, <3>7 DEF Ready, ClosedTo, LostTab
      <4>2. CloseInPrivateMode(b, id, page) = n
        BY <1>3, <2>2, <2>4, <3>4, <3>7 DEF CloseInPrivateMode
      <4> QED BY <4>1, <4>2, ReadyNotified
    <3>8. CASE b.active = id
      <4>1. Base(d) /\ d.active = NoTab /\ d.private = TRUE
        BY <2>1, <2>2, <3>2, <3>3, <3>8 DEF ClosedTo
      <4>2. Settled(d)
        BY <4>1 DEF Settled, Base
      <4>3. Base(n) /\ SameTabs(d, n)
        BY <4>1, <4>2, BaseNotified
      <4> HIDE DEF n
      <4>4. n.active = NoTab /\ n.private = TRUE
        BY <4>1, <4>3 DEF SameTabs
      <4>5. CloseInPrivateMode(b, id, page)
              = IF Ephemeral(n) = <<>> THEN OpenPrivateTab(n)
                ELSE ActivateTab(n, Ephemeral(n)[1].id)
        BY <1>3, <2>2, <2>4, <3>4, <3>8 DEF CloseInPrivateMode
      <4>6. CASE Ephemeral(n) = <<>>
        <5>1. PICK ws \in WorkspaceIds \cup {NoWorkspace}, eph \in BOOLEAN :
                ws = NoWorkspace /\ eph = TRUE
          OBVIOUS
        <5>2. BrowserSafe(OpenTab(n, ws, eph))
          BY <4>3, <4>4, <5>1, TabOpened
        <5> QED BY <4>5, <4>6, <5>1, <5>2 DEF OpenPrivateTab
      <4>7. CASE Ephemeral(n) # <<>>
        <5>1. PICK k \in DOMAIN n.tabs : Ephemeral(n)[1] = n.tabs[k] /\ n.tabs[k].eph = TRUE
          BY <4>3, <4>7, EphemeralTabs
        <5>2. n.tabs[k].eph = n.private /\ n.active # n.tabs[k].id
          BY <4>3, <4>4, <5>1, BrowserParts DEF NoTab
        <5>3. BrowserSafe(ActivateTab(n, n.tabs[k].id))
          BY <4>3, <5>2, TabActivated
        <5> QED BY <4>5, <4>7, <5>1, <5>3
      <4> QED BY <4>6, <4>7
    <3> QED BY <3>7, <3>8
  <2> QED BY <2>2, <2>3, <2>4
<1> QED BY <1>2, <1>3

LEMMA OrchestratorClosed ==
  ASSUME NEW b, BrowserSafe(b), NEW id, NEW page \in BOOLEAN
  PROVE  BrowserSafe(OrchestratorCloseTab(b, id, page))
BY ClosedInside, ClosedOutside DEF OrchestratorCloseTab

-----------------------------------------------------------------------------
\* Entering and leaving private mode.

LEMMA PrivateModeEntered ==
  ASSUME NEW b, BrowserSafe(b), ~b.private
  PROVE  BrowserSafe(EnterPrivateMode(b))
<1> DEFINE d == [b EXCEPT !.private = TRUE]
<1>1. Base(b) /\ b \in Browsers /\ PersistentSaved(b)
  BY DEF BrowserSafe, Ready, Base
<1>2. /\ d \in Browsers /\ d.tabs = b.tabs /\ d.made = b.made /\ d.active = b.active
      /\ d.current = b.current /\ d.private = TRUE /\ d.disk = b.disk
  BY <1>1 DEF Browsers
<1>3. EnterPrivateMode(b) = OpenPrivateTab(d)
  BY DEF EnterPrivateMode
<1> HIDE DEF d
<1>4. Base(d)
  BY <1>1, <1>2 DEF Base, PersistentSaved, Persistent
<1>5. PICK ws \in WorkspaceIds \cup {NoWorkspace}, eph \in BOOLEAN : ws = NoWorkspace /\ eph = TRUE
  OBVIOUS
<1>6. BrowserSafe(OpenTab(d, ws, eph))
  BY <1>2, <1>4, <1>5, TabOpened
<1> QED BY <1>3, <1>5, <1>6 DEF OpenPrivateTab

\* One value of the function that WithoutPrivateTabs is made of.
CloseStep(b, g, i) ==
  IF i = 0 THEN b
  ELSE IF b.tabs[i].eph THEN CloseTab(g[i - 1], b.tabs[i].id, FALSE, FALSE)
  ELSE g[i - 1]

\* The recursive function it is made of exists.
LEMMA ClosingExists ==
  ASSUME NEW b, Len(b.tabs) \in Nat
  PROVE  \E g : g = [i \in 0 .. Len(b.tabs) |-> CloseStep(b, g, i)]
<1> DEFINE IsUpTo(n, g) == g = [i \in 0 .. n |-> CloseStep(b, g, i)]
           Bad == {n \in 0 .. Len(b.tabs) : ~ \E g : IsUpTo(n, g)}
<1>1. SUFFICES ASSUME Bad # {} PROVE FALSE
  OBVIOUS
<1>2. PICK m \in Bad : \A y \in Bad : m <= y
  <2>1. Bad \in SUBSET Nat
    OBVIOUS
  <2> QED BY <1>1, <2>1, LeastElement
<1>3. CASE m = 0
  <2> DEFINE h == [i \in 0 .. 0 |-> b]
  <2>1. h = [i \in 0 .. 0 |-> CloseStep(b, h, i)]
    BY DEF CloseStep
  <2> QED BY <1>3, <2>1
<1>4. CASE m # 0
  <2>1. PICK g : IsUpTo(m - 1, g)
    BY <1>2, <1>4
  <2> DEFINE h == [i \in 0 .. m |-> IF i = m THEN CloseStep(b, g, m) ELSE g[i]]
  <2>a. m \in Nat \ {0}
    BY <1>2, <1>4
  <2>2. \A i \in 0 .. m : h[i] = CloseStep(b, h, i)
    <3> SUFFICES ASSUME NEW i \in 0 .. m PROVE h[i] = CloseStep(b, h, i)
      OBVIOUS
    <3>1. i # 0 => h[i - 1] = g[i - 1]
      BY <2>a
    <3>2. CloseStep(b, h, i) = CloseStep(b, g, i)
      BY <3>1 DEF CloseStep
    <3>3. i # m => g[i] = CloseStep(b, g, i)
      BY <2>1, <2>a
    <3> QED BY <3>2, <3>3
  <2>3. h = [i \in 0 .. m |-> CloseStep(b, h, i)]
    BY <2>2
  <2> QED BY <2>3
<1> QED BY <1>3, <1>4

\* The browser when the first i tabs have been looked at.
Emptied(b, i, d) ==
  /\ Base(d) /\ Settled(d) /\ d.private = TRUE
  /\ \A k \in DOMAIN d.tabs : \E j \in DOMAIN b.tabs :
       d.tabs[k] = b.tabs[j] /\ (~b.tabs[j].eph \/ j > i)

LEMMA OneMoreEmptied ==
  ASSUME NEW b, BrowserSafe(b), NEW i \in DOMAIN b.tabs, b.tabs[i].eph, NEW c,
         Emptied(b, i - 1, c)
  PROVE  Emptied(b, i, CloseTab(c, b.tabs[i].id, FALSE, FALSE))
<1> DEFINE id == b.tabs[i].id
<1>1. Base(c) /\ Settled(c) /\ c.private = TRUE
  BY DEF Emptied
<1>2. Base(b) /\ DOMAIN b.tabs = 1 .. Len(b.tabs) /\ Len(b.tabs) \in Nat
  BY BrowserParts DEF BrowserSafe, Ready
<1>3. \A j \in DOMAIN b.tabs : j > i - 1 /\ j # i => j > i
  BY <1>2
<1>4. CASE ~IsOpen(c, id)
  <2>1. \A k \in DOMAIN c.tabs : c.tabs[k].id # id
    BY <1>4 DEF IsOpen
  <2>2. \A k \in DOMAIN c.tabs : \E j \in DOMAIN b.tabs :
          c.tabs[k] = b.tabs[j] /\ (~b.tabs[j].eph \/ j > i)
    BY <1>3, <2>1 DEF Emptied
  <2> QED BY <1>1, <1>4, <2>2 DEF Emptied, CloseTab
<1>5. CASE IsOpen(c, id)
  <2>1. PICK k \in DOMAIN c.tabs : c.tabs[k].id = id
    BY <1>5 DEF IsOpen
  <2>2. PICK j \in DOMAIN b.tabs : c.tabs[k] = b.tabs[j]
    BY DEF Emptied
  <2>3. j = i
    BY <1>2, <2>1, <2>2 DEF Base, IdsSound
  <2>4. c.tabs[k].eph = c.private
    <3>1. c.tabs[k].eph \in BOOLEAN
      BY <1>1, BrowserParts DEF TabRows
    <3> QED BY <1>1, <2>2, <2>3, <3>1
  <2>5. PICK no \in BOOLEAN : no = FALSE
    OBVIOUS
  <2>6. PICK d : ClosedTo(c, k, no, no, d)
    BY <1>1, <2>4, TabClosed
  <2> DEFINE n == NotifyObservers(d)
  <2>7. CloseTab(c, id, FALSE, FALSE) = n
    BY <2>1, <2>5, <2>6 DEF ClosedTo
  <2>8. Base(d) /\ Settled(d) /\ d.private = TRUE
    <3>1. Base(d) /\ d.private = TRUE
      BY <1>1, <2>6 DEF ClosedTo
    <3>2. d.active # NoTab =>
            \E x \in DOMAIN d.tabs : d.tabs[x].id = d.active /\ d.tabs[x].eph = d.private
      <4>1. CASE c.active = c.tabs[k].id
        BY <2>5, <2>6, <4>1 DEF ClosedTo
      <4>2. CASE c.active # c.tabs[k].id
        <5>1. d.active = c.active /\ d.private = c.private
          BY <2>6, <4>2 DEF ClosedTo
        <5>2. c.active # NoTab =>
                \E x \in DOMAIN c.tabs : c.tabs[x].id = c.active /\ c.tabs[x].eph = c.private
          BY <1>1 DEF Settled
        <5>3. \A y \in DOMAIN c.tabs : y # k => \E x \in DOMAIN d.tabs : d.tabs[x] = c.tabs[y]
          BY <2>6 DEF ClosedTo, LostTab
        <5> QED BY <4>2, <5>1, <5>2, <5>3
      <4> QED BY <4>1, <4>2
    <3> QED BY <3>1, <3>2 DEF Settled, Base
  <2>9. Base(n) /\ SameTabs(d, n) /\ Settled(n)
    BY <2>8, BaseNotified, ObserversNotified
  <2> HIDE DEF n
  <2>10. n.tabs = d.tabs /\ n.private = TRUE
    BY <2>8, <2>9 DEF SameTabs
  <2>11. ASSUME NEW x \in DOMAIN d.tabs
         PROVE  \E y \in DOMAIN b.tabs : d.tabs[x] = b.tabs[y] /\ (~b.tabs[y].eph \/ y > i)
    <3>1. PICK z \in DOMAIN c.tabs : z # k /\ d.tabs[x] = c.tabs[z]
      BY <2>6 DEF ClosedTo, LostTab
    <3>2. PICK y \in DOMAIN b.tabs : c.tabs[z] = b.tabs[y] /\ (~b.tabs[y].eph \/ y > i - 1)
      BY DEF Emptied
    <3>3. y # i
      BY <1>1, <2>1, <2>2, <2>3, <3>1, <3>2 DEF Base, IdsSound
    <3> QED BY <1>3, <3>1, <3>2, <3>3
  <2>12. Emptied(b, i, n)
    BY <2>9, <2>10, <2>11 DEF Emptied
  <2> QED BY <2>7, <2>12
<1> QED BY <1>4, <1>5

\* No private tab is left, and no tab is active.
LEMMA PrivateTabsClosed ==
  ASSUME NEW b, BrowserSafe(b), b.private
  PROVE  LET d == WithoutPrivateTabs(b)
         IN  Base(d) /\ d.active = NoTab /\ \A k \in DOMAIN d.tabs : ~d.tabs[k].eph
<1> DEFINE n == Len(b.tabs)
           f == CHOOSE g : g = [i \in 0 .. n |-> CloseStep(b, g, i)]
<1>1. Base(b) /\ Settled(b) /\ n \in Nat /\ DOMAIN b.tabs = 1 .. n /\ b.private = TRUE
  BY BrowserParts, ReadyIsSettled DEF BrowserSafe, Ready
<1>2. WithoutPrivateTabs(b) = f[n]
  BY DEF WithoutPrivateTabs, CloseStep
<1>3. f = [i \in 0 .. n |-> CloseStep(b, f, i)]
  BY <1>1, ClosingExists
<1> HIDE DEF f
<1> DEFINE Bad == {i \in 0 .. n : ~Emptied(b, i, f[i])}
<1>4. Bad = {}
  <2> SUFFICES ASSUME Bad # {} PROVE FALSE
    OBVIOUS
  <2>1. PICK m \in Bad : \A y \in Bad : m <= y
    <3>1. Bad \in SUBSET Nat
      BY <1>1
    <3> QED BY <3>1, LeastElement
  <2>2. f[m] = CloseStep(b, f, m) /\ ~Emptied(b, m, f[m]) /\ m \in 0 .. n
    BY <1>3, <2>1
  <2>3. CASE m = 0
    <3>1. f[m] = b
      BY <2>2, <2>3 DEF CloseStep
    <3>2. \A j \in DOMAIN b.tabs : j > 0
      BY <1>1
    <3>3. Emptied(b, 0, b)
      BY <1>1, <3>2 DEF Emptied
    <3> QED BY <2>2, <2>3, <3>1, <3>3
  <2>4. CASE m # 0
    <3>1. m \in DOMAIN b.tabs /\ m - 1 \in 0 .. n /\ ~(m <= m - 1)
      BY <1>1, <2>2, <2>4
    <3>2. PICK c : c = f[m - 1]
      OBVIOUS
    <3>3. Emptied(b, m - 1, c)
      BY <2>1, <3>1, <3>2
    <3>4. CASE b.tabs[m].eph
      <4>1. f[m] = CloseTab(c, b.tabs[m].id, FALSE, FALSE)
        BY <2>2, <2>4, <3>2, <3>4 DEF CloseStep
      <4>2. Emptied(b, m, CloseTab(c, b.tabs[m].id, FALSE, FALSE))
        BY <3>1, <3>3, <3>4, OneMoreEmptied
      <4> QED BY <2>2, <4>1, <4>2
    <3>5. CASE ~b.tabs[m].eph
      <4>1. f[m] = c
        BY <2>2, <2>4, <3>2, <3>5 DEF CloseStep
      <4>2. \A j \in DOMAIN b.tabs : j > m - 1 => j > m \/ j = m
        BY <1>1, <3>1
      <4>3. Emptied(b, m, c)
        BY <3>3, <3>5, <4>2 DEF Emptied
      <4> QED BY <2>2, <4>1, <4>3
    <3> QED BY <3>4, <3>5
  <2> QED BY <2>3, <2>4
<1> DEFINE d == f[n]
<1>5. Emptied(b, n, d)
  BY <1>1, <1>4
<1> HIDE DEF d
<1>6. \A j \in DOMAIN b.tabs : ~(j > n)
  BY <1>1
<1> HIDE DEF n
<1>7. \A k \in DOMAIN d.tabs : ~d.tabs[k].eph
  BY <1>5, <1>6 DEF Emptied
<1>8. d.active = NoTab
  BY <1>5, <1>7 DEF Emptied, Settled
<1>9. Base(d)
  BY <1>5 DEF Emptied
<1> QED BY <1>2, <1>7, <1>8, <1>9 DEF d

LEMMA PrivateModeLeft ==
  ASSUME NEW b, BrowserSafe(b), b.private
  PROVE  BrowserSafe(ExitPrivateMode(b))
<1> DEFINE c == WithoutPrivateTabs(b)
           kept == Kept(c.closed, {rec \in ToSet(c.closed) : ~rec.eph})
           d == [c EXCEPT !.private = FALSE, !.closed = kept]
<1>1. Base(c) /\ c.active = NoTab /\ \A k \in DOMAIN c.tabs : ~c.tabs[k].eph
  BY PrivateTabsClosed
<1>2. ExitPrivateMode(b) = IF d.tabs = <<>> THEN OpenTab(d, NoWorkspace, FALSE)
                           ELSE ActivateTab(d, d.tabs[1].id)
  BY DEF ExitPrivateMode
<1> HIDE DEF c
<1>3. kept \in Seq(ClosedRows)
  <2> DEFINE S == {rec \in ToSet(c.closed) : ~rec.eph}
             q == c.closed
  <2>1. q \in Seq(ClosedRows)
    BY <1>1, BrowserParts
  <2>2. kept = Kept(q, S)
    OBVIOUS
  <2> HIDE DEF S, q, kept
  <2>3. kept \in Seq(ClosedRows \cap S)
    BY <2>1, <2>2, KeptType
  <2>4. Len(kept) \in Nat /\ kept \in [1 .. Len(kept) -> ClosedRows \cap S]
    BY <2>3, LenProperties
  <2>5. kept \in [1 .. Len(kept) -> ClosedRows]
    BY <2>4
  <2> QED BY <2>4, <2>5, SeqDef
<1> HIDE DEF kept
<1>4. /\ d \in Browsers /\ d.tabs = c.tabs /\ d.made = c.made /\ d.active = NoTab
      /\ d.current = c.current /\ d.private = FALSE /\ d.disk = c.disk
  BY <1>1, <1>3 DEF Browsers, Base
<1> HIDE DEF d
<1>5. Base(d)
  BY <1>1, <1>4 DEF Base
<1>6. CASE d.tabs = <<>>
  <2>1. PICK ws \in WorkspaceIds \cup {NoWorkspace}, eph \in BOOLEAN : ws = NoWorkspace /\ eph = FALSE
    OBVIOUS
  <2>2. BrowserSafe(OpenTab(d, ws, eph))
    BY <1>4, <1>5, <2>1, TabOpened
  <2> QED BY <1>2, <1>6, <2>1, <2>2
<1>7. CASE d.tabs # <<>>
  <2>1. /\ 1 \in DOMAIN d.tabs /\ d.tabs[1].id \in Nat \ {0} /\ d.tabs[1] \in TabRows
    <3>1. d.tabs \in Seq(TabRows) /\ Len(d.tabs) # 0
      BY <1>5, <1>7, BrowserParts, EmptySeq
    <3> QED BY <1>5, <3>1, BrowserParts
  <2>2. d.tabs[1].eph = d.private
    BY <1>1, <1>4, <2>1 DEF TabRows
  <2>3. d.active # d.tabs[1].id
    BY <1>4, <2>1 DEF NoTab
  <2>4. BrowserSafe(ActivateTab(d, d.tabs[1].id))
    BY <1>5, <2>1, <2>2, <2>3, TabActivated
  <2> QED BY <1>2, <1>7, <2>4
<1> QED BY <1>6, <1>7

LEMMA ReopenedSafely ==
  ASSUME NEW b, BrowserSafe(b)
  PROVE  BrowserSafe(ReopenLastClosedTab(b))
<1> DEFINE fit == {k \in DOMAIN b.closed : b.closed[k].eph = b.private}
           k   == CHOOSE k \in fit : \A j \in fit : j <= k
           d   == [b EXCEPT !.closed = RemoveAt(b.closed, k)]
<1>1. Base(b) /\ b \in Browsers /\ b.closed \in Seq(ClosedRows)
  BY BrowserParts DEF BrowserSafe, Ready, Base
<1>2. CASE fit = {}
  BY <1>2 DEF ReopenLastClosedTab
<1>3. CASE fit # {}
  <2>1. k \in fit
    <3>1. \E m \in fit : \A j \in fit : j <= m
      <4>1. fit \in SUBSET (1 .. Len(b.closed)) /\ Len(b.closed) \in Nat
        BY <1>1, LenProperties
      <4> HIDE DEF fit
      <4> DEFINE n     == Len(b.closed)
                 above == {x \in Nat : n - x \in fit}
      <4> HIDE DEF n
      <4>2. n \in Nat /\ fit \in SUBSET (1 .. n)
        BY <4>1 DEF n
      <4>3. above \in SUBSET Nat /\ above # {}
        <5>1. PICK j \in fit : TRUE
          BY <1>3
        <5>2. n - j \in Nat /\ n - (n - j) = j
          BY <4>2
        <5>3. n - j \in above
          BY <5>2
        <5> QED BY <5>3
      <4>4. PICK x \in above : \A y \in above : x <= y
        <5> HIDE DEF above
        <5> QED BY <4>3, LeastElement
      <4>5. ASSUME NEW j \in fit PROVE j <= n - x
        <5>1. n - j \in Nat /\ n - (n - j) = j
          BY <4>2
        <5>2. x <= n - j
          BY <4>4, <5>1
        <5> QED BY <4>2, <4>4, <5>2
      <4> QED BY <4>4, <4>5
    <3> HIDE DEF fit
    <3> QED BY <3>1
  <2> HIDE DEF k
  <2>2. k \in 1 .. Len(b.closed) /\ b.closed[k] \in ClosedRows /\ b.closed[k].eph = b.private
    BY <1>1, <2>1, LenProperties, ElementOfSeq
  <2>3. ReopenLastClosedTab(b) = OpenTab(d, b.closed[k].ws, b.closed[k].eph)
    BY <1>3 DEF ReopenLastClosedTab, k
  <2> DEFINE closed == RemoveAt(b.closed, k)
  <2>4. closed \in Seq(ClosedRows) /\ d = [b EXCEPT !.closed = closed]
    BY <1>1, <2>2, RemoveAtProperties
  <2> HIDE DEF closed, d
  <2>5. /\ d \in Browsers /\ d.tabs = b.tabs /\ d.made = b.made /\ d.active = b.active
        /\ d.current = b.current /\ d.private = b.private /\ d.disk = b.disk
    BY <1>1, <2>4 DEF Browsers
  <2>6. Base(d)
    BY <1>1, <2>5 DEF Base, PersistentSaved, Persistent
  <2>7. PICK ws \in WorkspaceIds \cup {NoWorkspace}, eph \in BOOLEAN :
          ws = b.closed[k].ws /\ eph = b.closed[k].eph
    BY <2>2 DEF ClosedRows
  <2>8. BrowserSafe(OpenTab(d, ws, eph))
    BY <2>2, <2>5, <2>6, <2>7, TabOpened
  <2> QED BY <2>3, <2>7, <2>8
<1> QED BY <1>2, <1>3

LEMMA TabsCycled ==
  ASSUME NEW b, BrowserSafe(b), NEW forward \in BOOLEAN
  PROVE  BrowserSafe(CycleTab(b, forward))
<1> DEFINE shown == Listed(b)
           at    == {i \in DOMAIN shown : shown[i].id = b.active}
           i     == CHOOSE i \in at : TRUE
           n     == Len(shown)
           next  == IF forward THEN (i % n) + 1 ELSE ((i + n - 2) % n) + 1
<1>1. n \in Nat /\ DOMAIN shown = 1 .. n /\ (shown # <<>> => n # 0)
  <2>1. shown \in Seq(TabRows)
    BY BrowserParts, ListedTabs DEF BrowserSafe, Ready
  <2> QED BY <2>1, LenProperties, EmptySeq
<1>2. CASE shown = <<>>
  BY <1>2 DEF CycleTab
<1>3. CASE shown # <<>> /\ at = {}
  <2>1. CycleTab(b, forward) = ActivateTab(b, shown[1].id)
    BY <1>3 DEF CycleTab
  <2>2. 1 \in DOMAIN shown
    BY <1>1, <1>3
  <2> QED BY <2>1, <2>2, ListedActivated
<1>4. CASE shown # <<>> /\ at # {}
  <2>1. CycleTab(b, forward) = ActivateTab(b, shown[next].id)
    BY <1>4 DEF CycleTab
  <2>2. i \in 1 .. n /\ n \in Nat \ {0}
    BY <1>1, <1>4
  <2>3. next \in 1 .. n
    <3> HIDE DEF i, n
    <3> QED BY <2>2
  <2> HIDE DEF next
  <2>4. next \in DOMAIN shown
    BY <1>1, <2>3
  <2> QED BY <2>1, <2>4, ListedActivated
<1> QED BY <1>2, <1>3, <1>4

-----------------------------------------------------------------------------
\* Workspaces that lead.

ActiveIsVisible(b) ==
  b.active # NoTab => IsTabVisibleInCurrentContext(b, TabOf(b, b.active))

\* The strip and the sidebar are made current where the observers have not been told.
LEMMA StripRebuilt ==
  ASSUME NEW b, Ready(b), ActiveIsVisible(b)
  PROVE  LET n == Refresh(RebuildTabs(b))
         IN  /\ Ready(n) /\ StripIs(n) /\ SameTabs(b, n) /\ n.disk = b.disk
             /\ n.current = b.current
             /\ PersistentSaved(b) => BrowserSafe(n)
<1> DEFINE rows == [i \in DOMAIN Listed(b) |-> Listed(b)[i].id]
           n == Refresh(RebuildTabs(b))
<1>1. Base(b) /\ b \in Browsers
  BY DEF Ready, Base
<1>2. rows \in Seq(Nat)
  BY <1>1, ListedTabs, BrowserParts
<1>3. n = [b EXCEPT !.rows = rows, !.marked = b.current]
  BY <1>1 DEF Refresh, RebuildTabs, Browsers
<1> HIDE DEF rows, n
<1>4. /\ n \in Browsers /\ SameTabs(b, n) /\ n.current = b.current /\ n.marked = b.current
      /\ n.rows = rows /\ n.disk = b.disk
  BY <1>1, <1>2, <1>3 DEF Browsers, SameTabs
<1>5. Persistent(n) = Persistent(b) /\ Listed(n) = Listed(b) /\ TabOf(n, n.active) = TabOf(b, b.active)
  BY <1>4, ListedSame DEF SameTabs, Persistent, TabOf
<1>6. Ready(n)
  BY <1>1, <1>4, <1>5 DEF Ready, Base, SameTabs, PersistentSaved
<1>7. StripIs(n)
  BY <1>4, <1>5 DEF StripIs, rows, SameTabs, IsTabVisibleInCurrentContext, IsTabVisible,
                    ActiveIsVisible
<1>8. PersistentSaved(b) => PersistentSaved(n)
  BY <1>4, <1>5 DEF PersistentSaved
<1> QED BY <1>4, <1>6, <1>7, <1>8 DEF BrowserSafe, n

\* The first tab of the active workspace comes up, or a new one does; the workspace stays.
LEMMA WorkspaceShown ==
  ASSUME NEW b, Ready(b)
  PROVE  LET n == ActivateOrCreateTabForActiveWorkspace(b)
         IN  /\ Ready(n) /\ ActiveIsVisible(n) /\ n.private = b.private
             /\ n.current = b.current
             /\ PersistentSaved(b) => PersistentSaved(n)
             /\ Listed(b) # <<>> => n.tabs = b.tabs
             /\ Listed(b) = <<>> =>
                  n.tabs = Append(b.tabs, [id |-> b.made + 1, ws |-> b.current, eph |-> b.private])
<1> DEFINE n == ActivateOrCreateTabForActiveWorkspace(b)
           l == Listed(b)
<1>1. Base(b) /\ b.tabs \in Seq(TabRows)
  BY BrowserParts DEF Ready
<1>2. CASE l # <<>>
  <2>1. l \in Seq(TabRows)
    BY <1>1, ListedTabs
  <2>2. 1 \in DOMAIN l
    <3>1. Len(l) \in Nat /\ Len(l) # 0 /\ DOMAIN l = 1 .. Len(l)
      BY <1>2, <2>1, LenProperties, EmptySeq
    <3> QED BY <3>1
  <2>3. PICK i \in DOMAIN b.tabs :
          l[1] = b.tabs[i] /\ IsTabVisibleInCurrentContext(b, b.tabs[i])
    BY <1>1, <2>2, ListedTabs
  <2> DEFINE id == b.tabs[i].id
             d  == [b EXCEPT !.active = id]
  <2>4. b.tabs[i].eph = b.private /\ Home(b.tabs[i]) = b.current
    BY <2>3 DEF IsTabVisibleInCurrentContext, IsTabVisible
  <2>5. TabOf(b, id) = b.tabs[i] /\ IsOpen(b, id)
    BY <1>1, TabFound DEF Base
  <2>6. n = IF b.active = id THEN b ELSE NotifyObservers(d)
    BY <1>2, <2>3, <2>5 DEF ActivateOrCreateTabForActiveWorkspace, ActivateTab
  <2>7. CASE b.active = id
    <3>1. n = b /\ ActiveIsVisible(b)
      BY <2>3, <2>5, <2>6, <2>7 DEF ActiveIsVisible
    <3> QED BY <1>2, <3>1
  <2>8. CASE b.active # id
    <3>1. Ready(d) /\ d.private = b.private
      BY <1>1, <2>4, ActiveChanged
    <3>2. d.active = id /\ d.tabs = b.tabs /\ id # NoTab
      BY <1>1, BrowserParts DEF Base, Browsers, NoTab
    <3> HIDE DEF d
    <3> DEFINE x == NotifyObservers(d)
    <3>3. BrowserSafe(x) /\ SameTabs(d, x)
      BY <3>1, ReadyNotified
    <3>4. d.active # NoTab => x.current = Home(TabOf(d, d.active))
      BY <3>1, ReadyIsSettled, BaseNotified DEF Ready
    <3>5. n = x
      BY <2>6, <2>8
    <3> HIDE DEF x, n
    <3>6. TabOf(d, d.active) = TabOf(b, id)
      BY <3>2 DEF TabOf
    <3>7. x.current = b.current
      BY <2>4, <2>5, <3>2, <3>4, <3>6
    <3>8. ActiveIsVisible(x) /\ Ready(x) /\ PersistentSaved(x)
      BY <3>3 DEF BrowserSafe, StripIs, ActiveIsVisible
    <3> QED BY <1>2, <3>1, <3>2, <3>3, <3>5, <3>7, <3>8 DEF SameTabs, n
  <2> QED BY <2>7, <2>8
<1>3. CASE l = <<>>
  <2>1. PICK ws \in WorkspaceIds \cup {NoWorkspace}, eph \in BOOLEAN :
          ws = b.current /\ eph = b.private
    BY <1>1, BrowserParts
  <2> DEFINE tab == [id |-> b.made + 1, ws |-> ws, eph |-> eph]
             d == AddTab(b, ws, eph)
             x == NotifyObservers(d)
  <2>2. /\ Ready(d) /\ d.private = b.private /\ d.tabs = Append(b.tabs, tab)
        /\ d.active = b.made + 1
    BY <1>1, <2>1, TabAdded
  <2>3. n = x
    BY <1>3, <2>1 DEF ActivateOrCreateTabForActiveWorkspace, OpenNewTab, OpenTab
  <2> HIDE DEF d
  <2>4. BrowserSafe(x) /\ SameTabs(d, x)
    BY <2>2, ReadyNotified
  <2>5. d.active # NoTab => x.current = Home(TabOf(d, d.active))
    BY <2>2, ReadyIsSettled, BaseNotified DEF Ready
  <2> HIDE DEF x, n
  <2>6. d.active # NoTab /\ TabOf(d, d.active) = tab
    <3>1. b.made \in Nat /\ tab \in TabRows /\ tab.id = b.made + 1
      BY <1>1, BrowserParts DEF TabRows
    <3> HIDE DEF tab
    <3>2. /\ Len(d.tabs) = Len(b.tabs) + 1 /\ d.tabs[Len(b.tabs) + 1] = tab
          /\ Len(b.tabs) \in Nat /\ d.tabs \in Seq(TabRows)
      BY <1>1, <2>2, <3>1, AppendProperties, LenProperties
    <3>3. Len(b.tabs) + 1 \in DOMAIN d.tabs
      BY <3>2, LenProperties
    <3>4. TabOf(d, d.tabs[Len(b.tabs) + 1].id) = d.tabs[Len(b.tabs) + 1]
      BY <2>2, <3>3, TabFound DEF Ready, Base
    <3> QED BY <2>2, <3>1, <3>2, <3>4 DEF NoTab
  <2>7. Home(tab) = b.current
    BY <1>1, <2>1, BrowserParts, NoWorkspaceAssumption DEF Home
  <2>8. ActiveIsVisible(x) /\ Ready(x) /\ PersistentSaved(x)
    BY <2>4 DEF BrowserSafe, StripIs, ActiveIsVisible
  <2>9. x.tabs = Append(b.tabs, [id |-> b.made + 1, ws |-> b.current, eph |-> b.private])
    BY <2>1, <2>2, <2>4 DEF SameTabs
  <2> QED BY <1>3, <2>2, <2>3, <2>4, <2>5, <2>6, <2>7, <2>8, <2>9 DEF SameTabs, n
<1> QED BY <1>2, <1>3

LEMMA WorkspaceSet ==
  ASSUME NEW b, Ready(b), NEW ws \in WorkspaceIds
  PROVE  /\ Ready(SetActiveWorkspace(b, ws))
         /\ PersistentSaved(b) => PersistentSaved(SetActiveWorkspace(b, ws))
<1> DEFINE c == [b.disk EXCEPT !.workspace = ws]
           d == SetActiveWorkspace(b, ws)
<1>1. Base(b) /\ b \in Browsers /\ b.disk \in Disks
  BY BrowserParts DEF Ready, Base
<1>2. d = [b EXCEPT !.current = ws, !.disk = c]
  BY <1>1 DEF SetActiveWorkspace, Browsers
<1>3. c \in Disks /\ c.workspace = ws /\ c.session = b.disk.session
  BY <1>1 DEF Disks
<1> HIDE DEF c, d
<1>4. /\ d \in Browsers /\ d.tabs = b.tabs /\ d.made = b.made /\ d.active = b.active
      /\ d.current = ws /\ d.private = b.private /\ d.disk = c
  BY <1>1, <1>2, <1>3 DEF Browsers
<1>5. Persistent(d) = Persistent(b)
  BY <1>4 DEF Persistent
<1> QED BY <1>1, <1>3, <1>4, <1>5 DEF Ready, Base, PersistentSaved, d

LEMMA WorkspaceLeads ==
  ASSUME NEW b, Ready(b), PersistentSaved(b)
  PROVE  BrowserSafe(Refresh(RebuildTabs(ActivateOrCreateTabForActiveWorkspace(b))))
<1> DEFINE x == ActivateOrCreateTabForActiveWorkspace(b)
<1>1. Ready(x) /\ ActiveIsVisible(x) /\ PersistentSaved(x)
  BY WorkspaceShown
<1> HIDE DEF x
<1> DEFINE n == Refresh(RebuildTabs(x))
<1>2. PersistentSaved(x) => BrowserSafe(n)
  BY <1>1, StripRebuilt
<1> QED BY <1>1, <1>2 DEF x

LEMMA WorkspaceSelected ==
  ASSUME NEW b, BrowserSafe(b), NEW ws \in WorkspaceIds
  PROVE  BrowserSafe(SelectWorkspace(b, ws))
<1> DEFINE there == IF ws = b.current THEN b ELSE SetActiveWorkspace(b, ws)
<1>1. Ready(there) /\ PersistentSaved(there)
  BY WorkspaceSet DEF BrowserSafe
<1>2. SelectWorkspace(b, ws)
        = Refresh(RebuildTabs(ActivateOrCreateTabForActiveWorkspace(there)))
  BY DEF SelectWorkspace
<1> HIDE DEF there
<1> QED BY <1>1, <1>2, WorkspaceLeads

LEMMA WorkspacesCycled ==
  ASSUME NEW b, BrowserSafe(b)
  PROVE  BrowserSafe(CycleWorkspace(b))
<1> DEFINE i == CHOOSE i \in DOMAIN Order : Order[i] = b.current
           n == Len(Order)
           ws == Order[(i % n) + 1]
           d == SetActiveWorkspace(b, ws)
<1>1. i \in DOMAIN Order
  <2>1. b.current \in WorkspaceIds
    BY BrowserParts DEF BrowserSafe, Ready
  <2> QED BY <2>1 DEF WorkspaceIds
<1>2. i \in 1 .. n /\ n \in Nat /\ n > 0 /\ DOMAIN Order = 1 .. n
  BY <1>1, OrderNonEmpty
<1>3. (i % n) + 1 \in 1 .. n
  <2> HIDE DEF i, n
  <2> QED BY <1>2
<1>4. ws \in WorkspaceIds
  <2> HIDE DEF i
  <2> QED BY <1>2, <1>3 DEF WorkspaceIds
<1>5. CycleNextWorkspace(b) = d
  BY DEF CycleNextWorkspace
<1> HIDE DEF ws
<1>6. Ready(d) /\ PersistentSaved(d)
  BY <1>4, WorkspaceSet DEF BrowserSafe
<1> HIDE DEF d
<1>7. CycleWorkspace(b) = Refresh(RebuildTabs(ActivateOrCreateTabForActiveWorkspace(d)))
  BY <1>5 DEF CycleWorkspace
<1> QED BY <1>6, <1>7, WorkspaceLeads

-----------------------------------------------------------------------------
\* The user's other commands.

LEMMA NewTabOpened ==
  ASSUME NEW b, BrowserSafe(b)
  PROVE  BrowserSafe(OpenNewTab(b))
<1>1. Base(b)
  BY DEF BrowserSafe, Ready
<1>2. PICK ws \in WorkspaceIds \cup {NoWorkspace}, eph \in BOOLEAN :
        ws = b.current /\ eph = b.private
  BY <1>1, BrowserParts
<1>3. BrowserSafe(OpenTab(b, ws, eph))
  BY <1>1, <1>2, TabOpened
<1> QED BY <1>2, <1>3 DEF OpenNewTab

LEMMA PrivateTabActive ==
  ASSUME NEW b, BrowserSafe(b), ~PrivateTabIsActive(b)
  PROVE  b.private = FALSE
<1>1. b.private \in BOOLEAN /\ Settled(b) /\ (b.private => b.active # NoTab)
  BY BrowserParts, ReadyIsSettled DEF BrowserSafe, Ready
<1>2. b.active # NoTab => TabOf(b, b.active).eph = b.private
  BY <1>1, ActiveIsOpen
<1> QED BY <1>1, <1>2 DEF PrivateTabIsActive

LEMMA FocusItemActivated ==
  ASSUME NEW b, BrowserSafe(b), NEW i \in DOMAIN b.tabs
  PROVE  BrowserSafe(ActivateFocusItem(b, b.tabs[i].id))
<1>1. Base(b)
  BY DEF BrowserSafe, Ready
<1>2. TabOf(b, b.tabs[i].id) = b.tabs[i] /\ b.tabs[i].eph \in BOOLEAN
  BY <1>1, TabFound, BrowserParts DEF Base, TabRows
<1>3. CASE PrivateTabIsActive(b) \/ b.tabs[i].eph
  BY <1>2, <1>3 DEF ActivateFocusItem
<1>4. CASE ~(PrivateTabIsActive(b) \/ b.tabs[i].eph)
  <2>1. b.tabs[i].eph = b.private
    BY <1>2, <1>4, PrivateTabActive
  <2>2. BrowserSafe(ActivateTab(b, b.tabs[i].id))
    BY <1>1, <2>1, TabActivated
  <2>3. ActivateFocusItem(b, b.tabs[i].id) = ActivateTab(b, b.tabs[i].id)
    BY <1>2, <1>4 DEF ActivateFocusItem
  <2> QED BY <2>2, <2>3
<1> QED BY <1>3, <1>4

LEMMA FocusItemOpened ==
  ASSUME NEW b, BrowserSafe(b), NEW ws \in WorkspaceIds
  PROVE  BrowserSafe(OpenFocusItem(b, ws))
<1>1. CASE PrivateTabIsActive(b)
  BY <1>1 DEF OpenFocusItem
<1>2. CASE ~PrivateTabIsActive(b)
  <2>1. PICK x \in WorkspaceIds \cup {NoWorkspace}, eph \in BOOLEAN : x = ws /\ eph = FALSE
    OBVIOUS
  <2>2. Base(b) /\ eph = b.private
    BY <1>2, <2>1, PrivateTabActive DEF BrowserSafe, Ready
  <2>3. BrowserSafe(OpenTab(b, x, eph))
    BY <2>2, TabOpened
  <2> QED BY <1>2, <2>1, <2>3 DEF OpenFocusItem
<1> QED BY <1>1, <1>2

Presses ==
  [kind: {"Activate", "Close"}, target: Nat] \cup [kind: {"SelectWorkspace"}, target: WorkspaceIds]
    \cup [kind: {"NewTab", "ToggleCollapsed", "ToggleDrawer", "Hide"}]

LEMMA PressHandled ==
  ASSUME NEW b, BrowserSafe(b), NEW action \in Presses, NEW page \in BOOLEAN
  PROVE  BrowserSafe(Handled(b, action, page))
<1>1. CASE action.kind = "Activate"
  <2>1. Handled(b, action, page)
          = IF IsOpen(b, action.target) /\ IsTabVisibleInCurrentContext(b, TabOf(b, action.target))
              THEN ActivateTab(b, action.target) ELSE b
    BY <1>1 DEF Handled
  <2>2. CASE ~(IsOpen(b, action.target) /\ IsTabVisibleInCurrentContext(b, TabOf(b, action.target)))
    BY <2>1, <2>2
  <2>3. CASE IsOpen(b, action.target) /\ IsTabVisibleInCurrentContext(b, TabOf(b, action.target))
    <3>1. PICK i \in DOMAIN b.tabs : b.tabs[i].id = action.target
      BY <2>3 DEF IsOpen
    <3>2. Base(b)
      BY DEF BrowserSafe, Ready
    <3>3. TabOf(b, b.tabs[i].id) = b.tabs[i]
      BY <3>2, TabFound DEF Base
    <3>4. b.tabs[i].eph = b.private
      BY <2>3, <3>1, <3>3 DEF IsTabVisibleInCurrentContext, IsTabVisible
    <3>5. BrowserSafe(ActivateTab(b, b.tabs[i].id))
      BY <3>2, <3>4, TabActivated
    <3> QED BY <2>1, <2>3, <3>1, <3>5
  <2> QED BY <2>2, <2>3
<1>2. CASE action.kind = "Close"
  <2>1. Handled(b, action, page) = OrchestratorCloseTab(b, action.target, page)
    BY <1>2 DEF Handled
  <2> QED BY <2>1, OrchestratorClosed
<1>3. CASE action.kind = "NewTab"
  BY <1>3, NewTabOpened DEF Handled
<1>4. CASE action.kind = "SelectWorkspace"
  <2>1. action.target \in WorkspaceIds
    BY <1>4 DEF Presses
  <2>2. Handled(b, action, page) = SelectWorkspace(b, action.target)
    BY <1>4 DEF Handled
  <2> QED BY <2>1, <2>2, WorkspaceSelected
<1>5. CASE action.kind \notin {"Activate", "Close", "NewTab", "SelectWorkspace"}
  BY <1>5 DEF Handled
<1> QED BY <1>1, <1>2, <1>3, <1>4, <1>5

-----------------------------------------------------------------------------
\* Quitting and launching.

LEMMA SessionSaved ==
  ASSUME NEW b, Ready(b), ~b.private
  PROVE  LET n == [b EXCEPT !.disk.session = Snapshot(b)]
         IN  /\ Ready(n) /\ SameTabs(b, n) /\ PersistentSaved(n) /\ n.current = b.current
             /\ n.disk.workspace = b.disk.workspace /\ n.disk.session.tabs = Persistent(b)
             /\ StripIs(b) => StripIs(n)
<1> DEFINE x == Snapshot(b)
           c == [b.disk EXCEPT !.session = x]
           n == [b EXCEPT !.disk.session = Snapshot(b)]
<1>1. Base(b) /\ b \in Browsers /\ b.disk \in Disks
  BY BrowserParts DEF Ready, Base
<1>2. x \in [tabs: Seq(TabRows), active: Nat] /\ x.tabs = Persistent(b)
  <2>1. x.tabs = Persistent(b)
    BY DEF Snapshot
  <2> QED BY <2>1, ReadyIsSettled, SnapshotType
<1>3. n = [b EXCEPT !.disk = c]
  BY <1>1 DEF Browsers
<1> HIDE DEF x
<1>4. c \in Disks /\ c.workspace = b.disk.workspace /\ c.session = x
  BY <1>1, <1>2 DEF Disks
<1> HIDE DEF c, n
<1>5. /\ n \in Browsers /\ SameTabs(b, n) /\ n.current = b.current /\ n.disk = c
      /\ n.rows = b.rows /\ n.marked = b.marked
  BY <1>1, <1>3, <1>4 DEF Browsers, SameTabs
<1>6. /\ Persistent(n) = Persistent(b) /\ Listed(n) = Listed(b)
      /\ TabOf(n, n.active) = TabOf(b, b.active)
  BY <1>5, ListedSame DEF SameTabs, Persistent, TabOf
<1>7. Persistent(b) = b.tabs
  BY <1>1, AllPersistent
<1>8. Restorable(n.disk.session.tabs, n.made)
  BY <1>1, <1>2, <1>4, <1>5, <1>7 DEF Restorable, Base, SameTabs
<1>9. PersistentSaved(n)
  BY <1>2, <1>4, <1>5, <1>6 DEF PersistentSaved
<1>10. Ready(n)
  BY <1>1, <1>4, <1>5, <1>8 DEF Ready, Base, SameTabs
<1>11. StripIs(b) => StripIs(n)
  BY <1>5, <1>6 DEF StripIs, SameTabs, IsTabVisibleInCurrentContext, IsTabVisible
<1> QED BY <1>2, <1>4, <1>5, <1>9, <1>10, <1>11 DEF n

\* What the launch starts from: the two files are there, and nothing else.
Fresh(b) ==
  [b EXCEPT !.tabs = <<>>, !.active = NoTab, !.closed = <<>>, !.private = FALSE,
            !.current = b.disk.workspace, !.rows = <<>>]

Reopened(b) ==
  IF b.disk.session.tabs = <<>> THEN AddTab(Fresh(b), Fresh(b).current, FALSE)
  ELSE Restored(Fresh(b))

LEMMA FreshIsBase ==
  ASSUME NEW b \in Browsers, Restorable(b.disk.session.tabs, b.made)
  PROVE  LET f == Fresh(b)
         IN  /\ Base(f) /\ f.tabs = <<>> /\ f.private = FALSE /\ f.disk = b.disk
             /\ f.current = b.disk.workspace /\ f.made = b.made /\ f.active = NoTab
<1> DEFINE f == Fresh(b)
           w == b.disk.workspace
<1>1. b.disk \in Disks /\ w \in WorkspaceIds
  BY DEF Browsers, Disks
<1>2. /\ <<>> \in Seq(TabRows) /\ <<>> \in Seq(ClosedRows) /\ <<>> \in Seq(Nat) /\ NoTab \in Nat
      /\ DOMAIN <<>> = {}
  BY EmptySeq DEF NoTab
<1> HIDE DEF w
<1>3. f = [b EXCEPT !.tabs = <<>>, !.active = NoTab, !.closed = <<>>, !.private = FALSE,
                    !.current = w, !.rows = <<>>]
  BY DEF Fresh, w
<1> HIDE DEF f
<1>4. /\ f \in Browsers /\ f.tabs = <<>> /\ f.private = FALSE /\ f.disk = b.disk
      /\ f.current = w /\ f.made = b.made /\ f.active = NoTab
  BY <1>1, <1>2, <1>3 DEF Browsers
<1>5. IdsSound(f.tabs, f.made)
  BY <1>2, <1>4 DEF IdsSound
<1>6. \A i \in DOMAIN f.tabs : ~f.tabs[i].eph
  BY <1>2, <1>4
<1>7. Base(f)
  BY <1>4, <1>5, <1>6 DEF Base, w
<1> QED BY <1>4, <1>7 DEF f, w

\* The session that is restored, before the strip goes to the active workspace.
LEMMA SessionReopened ==
  ASSUME NEW b \in Browsers, Restorable(b.disk.session.tabs, b.made)
  PROVE  LET r == Reopened(b)
         IN  /\ Ready(r) /\ r.private = FALSE /\ r.current = b.disk.workspace
             /\ b.disk.session.tabs # <<>> => r.tabs = b.disk.session.tabs
<1> DEFINE f == Fresh(b)
           saved == b.disk.session
           r == Reopened(b)
<1>1. /\ Base(f) /\ f.tabs = <<>> /\ f.private = FALSE /\ f.disk = b.disk
      /\ f.current = b.disk.workspace /\ f.made = b.made /\ f.active = NoTab
  BY FreshIsBase
<1>2. r = IF saved.tabs = <<>> THEN AddTab(f, f.current, FALSE) ELSE Restored(f)
  BY DEF Reopened
<1>3. saved.tabs \in Seq(TabRows) /\ saved.active \in Nat
  BY <1>1, BrowserParts
<1> HIDE DEF f, r
<1>4. CASE saved.tabs = <<>>
  <2>1. PICK ws \in WorkspaceIds \cup {NoWorkspace}, eph \in BOOLEAN :
          ws = f.current /\ eph = FALSE
    BY <1>1, BrowserParts
  <2> DEFINE d == AddTab(f, ws, eph)
  <2>2. Ready(d) /\ d.private = f.private /\ d.current = f.current
    BY <1>1, <2>1, TabAdded
  <2>3. r = d
    BY <1>2, <1>4, <2>1
  <2> HIDE DEF d
  <2> QED BY <1>1, <1>4, <2>2, <2>3 DEF r
<1>5. CASE saved.tabs # <<>>
  <2> DEFINE tabs == saved.tabs
             known == \E i \in DOMAIN tabs : tabs[i].id = saved.active
             a == IF known THEN saved.active ELSE tabs[1].id
  <2>1. r = [f EXCEPT !.tabs = tabs, !.active = a]
    BY <1>1, <1>2, <1>5 DEF Restored
  <2>2. /\ tabs \in Seq(TabRows) /\ DOMAIN tabs = 1 .. Len(tabs) /\ Len(tabs) \in Nat
        /\ Len(tabs) # 0
    BY <1>3, <1>5, LenProperties, EmptySeq
  <2>3. \A i \in DOMAIN tabs : tabs[i] \in TabRows /\ tabs[i].id \in Nat \ {0}
    <3>1. \A i \in DOMAIN tabs : tabs[i] \in TabRows
      BY <2>2, ElementOfSeq
    <3>2. \A i \in DOMAIN tabs : tabs[i].id \in 1 .. b.made
      BY DEF Restorable, IdsSound
    <3> QED BY <3>1, <3>2 DEF Browsers
  <2>4. PICK k \in DOMAIN tabs : tabs[k].id = a
    <3>1. 1 \in DOMAIN tabs
      BY <2>2
    <3> QED BY <3>1
  <2> HIDE DEF a
  <2>5. a \in Nat \ {0}
    BY <2>3, <2>4
  <2>6. IdsSound(tabs, b.made) /\ \A i \in DOMAIN tabs : ~tabs[i].eph
    BY DEF Restorable
  <2> HIDE DEF tabs
  <2>7. /\ r \in Browsers /\ r.tabs = tabs /\ r.active = a /\ r.private = FALSE
        /\ r.current = f.current /\ r.made = f.made /\ r.disk = f.disk
    BY <1>1, <2>1, <2>2, <2>5 DEF Browsers, Base
  <2>8. Base(r)
    BY <1>1, <2>6, <2>7 DEF Base
  <2>9. Ready(r)
    <3>1. tabs[k].eph = FALSE
      BY <2>3, <2>6 DEF TabRows
    <3>2. r.active # NoTab
      BY <2>5, <2>7 DEF NoTab
    <3> QED BY <2>4, <2>7, <2>8, <3>1, <3>2 DEF Ready
  <2> QED BY <1>1, <2>7, <2>9 DEF tabs, r
<1> QED BY <1>4, <1>5

\* The launch comes up sound, in the workspace that was saved and with the tabs that were.
LEMMA Launched ==
  ASSUME NEW b \in Browsers, Restorable(b.disk.session.tabs, b.made)
  PROVE  LET n    == Launch(b)
             kept == b.disk.session.tabs
         IN  /\ BrowserSafe(n) /\ n.current = b.disk.workspace
             /\ kept # <<>> =>
                  IF \E tab \in ToSet(kept) : Home(tab) = b.disk.workspace THEN n.tabs = kept
                  ELSE \E tab \in ToSet(n.tabs) :
                         n.tabs = Append(kept, tab) /\ tab.ws = n.current /\ ~tab.eph
<1> DEFINE r    == Reopened(b)
           x    == ActivateOrCreateTabForActiveWorkspace(r)
           y    == Refresh(RebuildTabs(x))
           n    == Launch(b)
           kept == b.disk.session.tabs
<1>1. /\ Ready(r) /\ r.private = FALSE /\ r.current = b.disk.workspace
      /\ kept # <<>> => r.tabs = kept
  BY SessionReopened
<1>2. n = [y EXCEPT !.disk.session = Snapshot(y)]
  BY DEF Launch, Fresh, Reopened
<1> HIDE DEF r
<1>3. /\ Ready(x) /\ ActiveIsVisible(x) /\ x.private = r.private /\ x.current = r.current
      /\ Listed(r) # <<>> => x.tabs = r.tabs
      /\ Listed(r) = <<>> =>
           x.tabs = Append(r.tabs, [id |-> r.made + 1, ws |-> r.current, eph |-> r.private])
  BY <1>1, WorkspaceShown
<1> HIDE DEF x
<1>4. Ready(y) /\ StripIs(y) /\ SameTabs(x, y) /\ y.current = x.current
  BY <1>3, StripRebuilt
<1> HIDE DEF y, n
<1>5. ~y.private
  BY <1>1, <1>3, <1>4 DEF SameTabs
<1> DEFINE z == [y EXCEPT !.disk.session = Snapshot(y)]
<1>6. /\ Ready(z) /\ SameTabs(y, z) /\ PersistentSaved(z) /\ z.current = y.current
      /\ StripIs(y) => StripIs(z)
  BY <1>4, <1>5, SessionSaved
<1>7. n = z
  BY <1>2
<1> HIDE DEF z
<1>8. BrowserSafe(n) /\ n.current = b.disk.workspace /\ n.tabs = x.tabs
  BY <1>1, <1>3, <1>4, <1>6, <1>7 DEF BrowserSafe, SameTabs
<1>9. ASSUME kept # <<>>
      PROVE  IF \E tab \in ToSet(kept) : Home(tab) = b.disk.workspace THEN n.tabs = kept
             ELSE \E tab \in ToSet(n.tabs) :
                    n.tabs = Append(kept, tab) /\ tab.ws = n.current /\ ~tab.eph
  <2>1. r.tabs = kept /\ Base(r) /\ r.tabs \in Seq(TabRows)
    BY <1>1, <1>9, BrowserParts DEF Ready
  <2>2. \A i \in DOMAIN r.tabs : r.tabs[i].eph = FALSE
    BY <1>1, <2>1, BrowserParts DEF Base, TabRows
  <2>3. CASE \E tab \in ToSet(kept) : Home(tab) = b.disk.workspace
    <3>1. PICK i \in DOMAIN r.tabs : Home(r.tabs[i]) = r.current
      BY <1>1, <2>1, <2>3 DEF ToSet
    <3>2. IsTabVisibleInCurrentContext(r, r.tabs[i])
      BY <1>1, <2>2, <3>1 DEF IsTabVisibleInCurrentContext, IsTabVisible
    <3>3. Listed(r) # <<>>
      BY <2>1, <3>2, ListedTabs
    <3> QED BY <1>3, <1>8, <2>1, <2>3, <3>3
  <2>4. CASE ~ \E tab \in ToSet(kept) : Home(tab) = b.disk.workspace
    <3>1. Listed(r) = <<>>
      <4> SUFFICES ASSUME Listed(r) # <<>> PROVE FALSE
        OBVIOUS
      <4> DEFINE l == Listed(r)
      <4>1. l \in Seq(TabRows)
        BY <2>1, ListedTabs
      <4>2. 1 \in DOMAIN l
        <5>1. Len(l) \in Nat /\ Len(l) # 0 /\ DOMAIN l = 1 .. Len(l)
          BY <4>1, LenProperties, EmptySeq
        <5> QED BY <5>1
      <4>3. PICK i \in DOMAIN r.tabs : IsTabVisibleInCurrentContext(r, r.tabs[i])
        BY <2>1, <4>2, ListedTabs
      <4>4. Home(r.tabs[i]) = b.disk.workspace
        BY <1>1, <4>3 DEF IsTabVisibleInCurrentContext
      <4> QED BY <2>1, <2>4, <4>4 DEF ToSet
    <3> DEFINE tab == [id |-> r.made + 1, ws |-> r.current, eph |-> r.private]
    <3>2. n.tabs = Append(kept, tab)
      BY <1>3, <1>8, <2>1, <3>1
    <3>3. tab.ws = n.current /\ ~tab.eph /\ tab \in TabRows
      BY <1>1, <1>8, <2>1, BrowserParts DEF TabRows
    <3> HIDE DEF tab
    <3>4. /\ Len(n.tabs) = Len(kept) + 1 /\ n.tabs[Len(kept) + 1] = tab
          /\ n.tabs \in Seq(TabRows) /\ Len(kept) \in Nat
      BY <2>1, <3>2, <3>3, AppendProperties, LenProperties
    <3>5. Len(kept) + 1 \in DOMAIN n.tabs
      BY <3>4, LenProperties
    <3>6. tab \in ToSet(n.tabs)
      BY <3>4, <3>5 DEF ToSet
    <3> QED BY <2>4, <3>2, <3>3, <3>6
  <2> QED BY <2>3, <2>4
<1> QED BY <1>8, <1>9 DEF n

LEMMA StoppedBrowser ==
  ASSUME NEW b, BrowserSafe(b), NEW clean \in BOOLEAN
  PROVE  LET c == IF clean THEN ShutdownRuntime(b) ELSE b
         IN  /\ c \in Browsers /\ Restorable(c.disk.session.tabs, c.made)
             /\ c.disk.workspace = b.current
             /\ Persistent(b) # <<>> => c.disk.session.tabs = Persistent(b)
<1> DEFINE c == IF clean THEN ShutdownRuntime(b) ELSE b
           d == [b EXCEPT !.disk.session = Snapshot(b)]
<1>1. Base(b) /\ b \in Browsers /\ b.private \in BOOLEAN /\ PersistentSaved(b)
  BY BrowserParts DEF BrowserSafe, Ready, Base
<1>2. CASE ~clean \/ b.private
  <2>1. c = b
    BY <1>2 DEF ShutdownRuntime
  <2> QED BY <1>1, <2>1 DEF Base, PersistentSaved
<1>3. CASE clean /\ ~b.private
  <2>1. c = d
    BY <1>3 DEF ShutdownRuntime
  <2>2. /\ Ready(d) /\ d.disk.workspace = b.disk.workspace /\ d.disk.session.tabs = Persistent(b)
    BY <1>3, SessionSaved DEF BrowserSafe
  <2> HIDE DEF c, d
  <2>3. Ready(c) /\ c.disk.workspace = b.disk.workspace /\ c.disk.session.tabs = Persistent(b)
    BY <2>1, <2>2
  <2> QED BY <1>1, <2>3 DEF Base, Ready, c
<1> QED BY <1>2, <1>3

-----------------------------------------------------------------------------
\* The sidebar's message and its timers: they fire in the order they were started, and
\* the message is shown exactly while its own timer runs.

Sidebars ==
  [visible: BOOLEAN, collapsed: BOOLEAN, feedback: BOOLEAN, generation: Nat, timers: Seq(Nat)]

SidebarSafe(bar) ==
  /\ bar \in Sidebars
  /\ \A i \in DOMAIN bar.timers : bar.timers[i] <= bar.generation
  /\ \A i, j \in DOMAIN bar.timers : i < j => bar.timers[i] < bar.timers[j]
  /\ bar.feedback <=> \E i \in DOMAIN bar.timers : bar.timers[i] = bar.generation

LEMMA SidebarParts ==
  ASSUME NEW bar, SidebarSafe(bar)
  PROVE  /\ bar.visible \in BOOLEAN /\ bar.collapsed \in BOOLEAN /\ bar.feedback \in BOOLEAN
         /\ bar.generation \in Nat /\ bar.timers \in Seq(Nat) /\ Len(bar.timers) \in Nat
         /\ DOMAIN bar.timers = 1 .. Len(bar.timers)
         /\ \A i \in DOMAIN bar.timers : bar.timers[i] \in Nat
<1>1. /\ bar.visible \in BOOLEAN /\ bar.collapsed \in BOOLEAN /\ bar.feedback \in BOOLEAN
      /\ bar.generation \in Nat /\ bar.timers \in Seq(Nat)
  BY DEF SidebarSafe, Sidebars
<1>2. Len(bar.timers) \in Nat /\ DOMAIN bar.timers = 1 .. Len(bar.timers)
  BY <1>1, LenProperties
<1>3. \A i \in DOMAIN bar.timers : bar.timers[i] \in Nat
  BY <1>1, <1>2, ElementOfSeq
<1> QED BY <1>1, <1>2, <1>3

\* Where the sidebar stands does not matter.
LEMMA SidebarMoved ==
  ASSUME NEW bar, SidebarSafe(bar), NEW visible \in BOOLEAN, NEW collapsed \in BOOLEAN
  PROVE  SidebarSafe([bar EXCEPT !.visible = visible, !.collapsed = collapsed])
<1> DEFINE d == [bar EXCEPT !.visible = visible, !.collapsed = collapsed]
<1>1. bar \in Sidebars
  BY DEF SidebarSafe
<1>2. /\ d \in Sidebars /\ d.timers = bar.timers /\ d.generation = bar.generation
      /\ d.feedback = bar.feedback
  BY <1>1 DEF Sidebars
<1> HIDE DEF d
<1>3. SidebarSafe(d)
  BY <1>2 DEF SidebarSafe
<1> QED BY <1>3 DEF d

LEMMA FeedbackShown ==
  ASSUME NEW bar, SidebarSafe(bar)
  PROVE  SidebarSafe(ShowTransientFeedback(bar))
<1> DEFINE g == bar.generation + 1
           t == Append(bar.timers, g)
           d == [bar EXCEPT !.feedback = TRUE, !.generation = g, !.timers = t]
           n == Len(bar.timers)
<1>1. bar \in Sidebars /\ bar.visible \in BOOLEAN
  BY SidebarParts DEF SidebarSafe
<1>2. CASE ~bar.visible
  BY <1>2 DEF ShowTransientFeedback
<1>3. CASE bar.visible
  <2>1. ShowTransientFeedback(bar) = d
    BY <1>1, <1>3 DEF ShowTransientFeedback, Sidebars
  <2>2. /\ g \in Nat /\ bar.timers \in Seq(Nat) /\ n \in Nat /\ bar.generation \in Nat
        /\ DOMAIN bar.timers = 1 .. n /\ \A i \in 1 .. n : bar.timers[i] \in Nat
    BY SidebarParts
  <2>3. /\ \A i \in 1 .. n : bar.timers[i] < g
        /\ \A i, j \in 1 .. n : i < j => bar.timers[i] < bar.timers[j]
    <3>1. /\ \A i \in 1 .. n : bar.timers[i] <= bar.generation
          /\ \A i, j \in 1 .. n : i < j => bar.timers[i] < bar.timers[j]
      BY <2>2 DEF SidebarSafe
    <3> HIDE DEF n
    <3>2. ASSUME NEW i \in 1 .. n PROVE bar.timers[i] < g
      <4>1. bar.timers[i] \in Nat /\ bar.timers[i] <= bar.generation
        BY <2>2, <3>1
      <4> QED BY <2>2, <4>1
    <3> QED BY <3>1, <3>2
  <2> HIDE DEF g
  <2>4. /\ t \in Seq(Nat) /\ Len(t) = n + 1 /\ t[n + 1] = g
        /\ \A i \in 1 .. n : t[i] = bar.timers[i]
    BY <2>2, AppendProperties
  <2>5. DOMAIN t = 1 .. n + 1
    BY <2>4, LenProperties
  <2> HIDE DEF t, d
  <2>6. /\ d \in Sidebars /\ d.timers = t /\ d.generation = g /\ d.feedback = TRUE
    BY <1>1, <2>2, <2>4 DEF Sidebars, d
  <2> HIDE DEF n
  <2>7. \A i \in 1 .. n + 1 : t[i] <= g
    <3>1. \A i \in 1 .. n + 1 : i \in 1 .. n \/ i = n + 1
      BY <2>2
    <3>2. \A i \in 1 .. n : bar.timers[i] <= g
      BY <2>2, <2>3
    <3>3. ASSUME NEW i \in 1 .. n PROVE t[i] <= g
      BY <2>4, <3>2
    <3>4. t[n + 1] <= g
      BY <2>2, <2>4
    <3> QED BY <3>1, <3>3, <3>4
  <2>8. ASSUME NEW i \in 1 .. n + 1, NEW j \in 1 .. n + 1, i < j
        PROVE  t[i] < t[j]
    <3>1. i \in 1 .. n
      BY <2>2, <2>8
    <3>2. CASE j = n + 1
      BY <2>3, <2>4, <3>1, <3>2
    <3>3. CASE j # n + 1
      <4>1. j \in 1 .. n
        BY <2>2, <3>3
      <4> QED BY <2>3, <2>4, <2>8, <3>1, <4>1
    <3> QED BY <3>2, <3>3
  <2>9. n + 1 \in DOMAIN t
    BY <2>2, <2>5
  <2>10. SidebarSafe(d)
    BY <2>4, <2>5, <2>6, <2>7, <2>8, <2>9 DEF SidebarSafe
  <2> QED BY <2>1, <2>10
<1> QED BY <1>1, <1>2, <1>3

LEMMA SidebarActed ==
  ASSUME NEW bar, SidebarSafe(bar), NEW action
  PROVE  SidebarSafe(SidebarAfter(bar, action))
<1> DEFINE c == [bar EXCEPT !.visible = bar.visible, !.collapsed = ~bar.collapsed]
           d == [bar EXCEPT !.visible = FALSE, !.collapsed = bar.collapsed]
<1>1. bar.visible \in BOOLEAN /\ bar.collapsed \in BOOLEAN /\ bar \in Sidebars
  BY SidebarParts DEF SidebarSafe
<1>2. SidebarSafe(c) /\ SidebarSafe(d)
  <2>1. PICK v \in BOOLEAN, w \in BOOLEAN : v = bar.visible /\ w = ~bar.collapsed
    BY <1>1
  <2>2. PICK x \in BOOLEAN, y \in BOOLEAN : x = FALSE /\ y = bar.collapsed
    BY <1>1
  <2>3. SidebarSafe([bar EXCEPT !.visible = v, !.collapsed = w])
    BY SidebarMoved
  <2>4. SidebarSafe([bar EXCEPT !.visible = x, !.collapsed = y])
    BY SidebarMoved
  <2> QED BY <2>1, <2>2, <2>3, <2>4
<1>3. c = [bar EXCEPT !.collapsed = ~@] /\ d = [bar EXCEPT !.visible = FALSE]
  BY <1>1 DEF Sidebars
<1> HIDE DEF c, d
<1>4. CASE action.kind = "ToggleCollapsed"
  <2>1. SidebarAfter(bar, action) = ShowTransientFeedback(c)
    BY <1>3, <1>4 DEF SidebarAfter
  <2> QED BY <1>2, <2>1, FeedbackShown
<1>5. CASE action.kind \in {"SelectWorkspace", "ToggleDrawer"}
  <2>1. SidebarAfter(bar, action) = ShowTransientFeedback(bar)
    BY <1>5 DEF SidebarAfter
  <2> QED BY <2>1, FeedbackShown
<1>6. CASE action.kind = "Hide"
  BY <1>2, <1>3, <1>6 DEF SidebarAfter
<1>7. CASE action.kind \notin {"ToggleCollapsed", "SelectWorkspace", "ToggleDrawer", "Hide"}
  BY <1>7 DEF SidebarAfter
<1> QED BY <1>4, <1>5, <1>6, <1>7

LEMMA TimerFired ==
  ASSUME NEW bar, SidebarSafe(bar), bar.timers # <<>>
  PROVE  SidebarSafe([ClearTransientFeedback(bar, Head(bar.timers)) EXCEPT !.timers = Tail(@)])
<1> DEFINE t == bar.timers
           n == Len(t)
           rest == Tail(t)
           shown == IF Head(t) # bar.generation THEN bar.feedback ELSE FALSE
           d == [bar EXCEPT !.feedback = shown, !.timers = rest]
<1>1. /\ bar \in Sidebars /\ bar.feedback \in BOOLEAN /\ bar.generation \in Nat /\ t \in Seq(Nat)
      /\ n \in Nat /\ DOMAIN t = 1 .. n
  BY SidebarParts DEF SidebarSafe
<1>2. [ClearTransientFeedback(bar, Head(bar.timers)) EXCEPT !.timers = Tail(@)] = d
  BY <1>1 DEF ClearTransientFeedback, Sidebars
<1>3. /\ rest \in Seq(Nat) /\ Len(rest) = n - 1 /\ Head(t) = t[1]
      /\ \A i \in 1 .. n - 1 : rest[i] = t[i + 1]
  BY <1>1, HeadTailProperties
<1>4. n # 0 /\ DOMAIN rest = 1 .. n - 1
  BY <1>1, <1>3, EmptySeq, LenProperties
<1>5. shown \in BOOLEAN
  BY <1>1
<1> HIDE DEF shown, rest, d
<1>6. d \in Sidebars /\ d.timers = rest /\ d.generation = bar.generation /\ d.feedback = shown
  BY <1>1, <1>3, <1>5 DEF Sidebars, d
<1> HIDE DEF n
<1>7. /\ \A i \in 1 .. n : t[i] \in Nat /\ t[i] <= bar.generation
      /\ \A i, j \in 1 .. n : i < j => t[i] < t[j]
      /\ bar.feedback <=> \E i \in 1 .. n : t[i] = bar.generation
  BY <1>1, SidebarParts DEF SidebarSafe
<1>8. \A i \in 1 .. n - 1 : i + 1 \in 1 .. n /\ 1 < i + 1 /\ 1 \in 1 .. n
  BY <1>1, <1>4
<1>9. \A i \in 1 .. n : i # 1 => i - 1 \in 1 .. n - 1 /\ (i - 1) + 1 = i
  BY <1>1
<1>10. \A i \in 1 .. n - 1 : rest[i] <= bar.generation
  BY <1>3, <1>7, <1>8
<1>11. ASSUME NEW i \in 1 .. n - 1, NEW j \in 1 .. n - 1, i < j PROVE rest[i] < rest[j]
  <2>1. i + 1 \in 1 .. n /\ j + 1 \in 1 .. n /\ i + 1 < j + 1
    BY <1>1, <1>8, <1>11
  <2>2. t[i + 1] < t[j + 1]
    BY <1>7, <2>1
  <2> QED BY <1>3, <2>2
<1>12. shown <=> \E i \in 1 .. n - 1 : rest[i] = bar.generation
  <2>1. CASE t[1] = bar.generation
    <3>1. \A i \in 1 .. n - 1 : rest[i] # bar.generation
      <4>1. \A i \in 1 .. n - 1 : bar.generation < rest[i]
        BY <1>3, <1>7, <1>8, <2>1
      <4> QED BY <1>1, <4>1
    <3> QED BY <1>3, <2>1, <3>1 DEF shown
  <2>2. CASE t[1] # bar.generation
    <3>1. (\E i \in 1 .. n : t[i] = bar.generation)
            <=> \E i \in 1 .. n - 1 : rest[i] = bar.generation
      <4>1. ASSUME NEW i \in 1 .. n, t[i] = bar.generation
            PROVE  \E k \in 1 .. n - 1 : rest[k] = bar.generation
        <5>1. i # 1
          BY <2>2, <4>1
        <5>2. i - 1 \in 1 .. n - 1 /\ (i - 1) + 1 = i
          BY <1>9, <5>1
        <5>3. rest[i - 1] = t[(i - 1) + 1]
          BY <1>3, <5>2
        <5> QED BY <4>1, <5>2, <5>3
      <4>2. ASSUME NEW k \in 1 .. n - 1, rest[k] = bar.generation
            PROVE  \E i \in 1 .. n : t[i] = bar.generation
        BY <1>3, <1>8, <4>2
      <4> QED BY <4>1, <4>2
    <3> QED BY <1>3, <1>7, <2>2, <3>1 DEF shown
  <2> QED BY <2>1, <2>2
<1>13. SidebarSafe(d)
  BY <1>4, <1>6, <1>10, <1>11, <1>12 DEF SidebarSafe
<1> QED BY <1>2, <1>13

LEMMA SidebarNew ==
  ASSUME NEW state
  PROVE  SidebarSafe(NewSidebar(state))
<1> DEFINE d == NewSidebar(state)
           v == state # "hidden"
           c == state # "expanded"
<1>1. v \in BOOLEAN /\ c \in BOOLEAN /\ <<>> \in Seq(Nat) /\ DOMAIN <<>> = {}
  BY EmptySeq
<1>2. d = [visible |-> v, collapsed |-> c, feedback |-> FALSE, generation |-> 0, timers |-> <<>>]
  BY DEF NewSidebar
<1> HIDE DEF v, c, d
<1>3. d \in Sidebars /\ d.timers = <<>> /\ d.feedback = FALSE
  BY <1>1, <1>2 DEF Sidebars
<1> QED BY <1>1, <1>3 DEF SidebarSafe, d

-----------------------------------------------------------------------------
\* The theorems about the workspaces.

BoundsCount == bounds \in [runs: Nat, turns: Nat]

WorkspacesSafe ==
  BrowserSafe(browser) /\ SidebarSafe(sidebar) /\ posted \in Seq(Presses) /\ BoundsCount

LEMMA BrowserRefreshed ==
  ASSUME NEW b, BrowserSafe(b), NEW state \in SidebarStates, NEW marked,
         marked \in {b.marked, b.current}
  PROVE  BrowserSafe([b EXCEPT !.disk.sidebar = state, !.marked = marked])
<1> DEFINE c == [b.disk EXCEPT !.sidebar = state]
           d == [b EXCEPT !.disk.sidebar = state, !.marked = marked]
<1>1. /\ Base(b) /\ Ready(b) /\ StripIs(b) /\ PersistentSaved(b) /\ b \in Browsers
      /\ b.disk \in Disks /\ b.current \in WorkspaceIds
  BY BrowserParts DEF BrowserSafe, Ready, Base
<1>2. c \in Disks /\ c.workspace = b.disk.workspace /\ c.session = b.disk.session
  BY <1>1 DEF Disks
<1>3. d = [b EXCEPT !.disk = c, !.marked = marked]
  BY <1>1 DEF Browsers
<1>4. marked = b.current /\ b.marked = b.current
  BY <1>1 DEF StripIs
<1> HIDE DEF c, d
<1>5. /\ d \in Browsers /\ SameTabs(b, d) /\ d.current = b.current /\ d.disk = c
      /\ d.rows = b.rows /\ d.marked = marked
  BY <1>1, <1>2, <1>3, <1>4 DEF Browsers, SameTabs
<1>6. /\ Persistent(d) = Persistent(b) /\ Listed(d) = Listed(b)
      /\ TabOf(d, d.active) = TabOf(b, b.active)
  BY <1>5, ListedSame DEF SameTabs, Persistent, TabOf
<1>7. Ready(d) /\ PersistentSaved(d)
  BY <1>1, <1>2, <1>5, <1>6 DEF Ready, Base, SameTabs, PersistentSaved
<1>8. StripIs(d)
  BY <1>1, <1>4, <1>5, <1>6 DEF StripIs, SameTabs, IsTabVisibleInCurrentContext, IsTabVisible
<1> QED BY <1>7, <1>8 DEF BrowserSafe, d

LEMMA InitWorkspaces ==
  ASSUME Init
  PROVE  WorkspacesSafe
<1> DEFINE s == [tabs |-> <<>>, active |-> NoTab]
           k == [workspace |-> Default, session |-> s, sidebar |-> "compact"]
           b == [tabs |-> <<>>, active |-> NoTab, closed |-> <<>>, made |-> 0, current |-> Default,
                 private |-> FALSE, rows |-> <<>>, marked |-> Default, disk |-> k]
<1>1. /\ <<>> \in Seq(TabRows) /\ <<>> \in Seq(ClosedRows) /\ <<>> \in Seq(Nat) /\ NoTab \in Nat
      /\ <<>> \in Seq(Presses) /\ DOMAIN <<>> = {} /\ Default \in WorkspaceIds
  BY EmptySeq, OrderNonEmpty DEF NoTab
<1>2. k \in Disks /\ k.session.tabs = <<>>
  BY <1>1 DEF Disks, SidebarStates
<1> HIDE DEF k
<1>3. b \in Browsers /\ b.disk.session.tabs = <<>> /\ b.made = 0
  BY <1>1, <1>2 DEF Browsers
<1>4. browser = Launch(b)
  BY DEF Init, k
<1> HIDE DEF b
<1>5. Restorable(b.disk.session.tabs, b.made)
  BY <1>1, <1>3 DEF Restorable, IdsSound
<1>6. BrowserSafe(browser)
  BY <1>3, <1>4, <1>5, Launched
<1>7. SidebarSafe(sidebar)
  BY SidebarNew DEF Init
<1> QED BY <1>1, <1>6, <1>7 DEF Init, WorkspacesSafe, BoundsCount

LEMMA TurnCounts ==
  ASSUME BoundsCount, bounds' = [bounds EXCEPT !.turns = @ + 1]
  PROVE  BoundsCount' /\ bounds'.runs = bounds.runs
BY DEF BoundsCount

LEMMA CommandsAreSafe ==
  ASSUME WorkspacesSafe, NEW b, BrowserSafe(b), Command(b)
  PROVE  WorkspacesSafe' /\ bounds'.runs = bounds.runs
<1>1. BoundsCount' /\ bounds'.runs = bounds.runs
  BY TurnCounts DEF Command, Turn, WorkspacesSafe
<1>2. browser' = b /\ sidebar' = sidebar /\ posted' = posted
  BY DEF Command
<1> QED BY <1>1, <1>2 DEF WorkspacesSafe

LEMMA ShortcutIsSafe ==
  ASSUME WorkspacesSafe, Shortcut \/ FocusItemPressed
  PROVE  WorkspacesSafe' /\ bounds'.runs = bounds.runs
<1>0. BrowserSafe(browser) /\ browser.private \in BOOLEAN
  BY BrowserParts DEF WorkspacesSafe, BrowserSafe, Ready
<1>1. CASE Command(OpenNewTab(browser))
  BY <1>0, <1>1, NewTabOpened, CommandsAreSafe
<1>2. CASE \E page \in BOOLEAN : Command(OrchestratorCloseTab(browser, browser.active, page))
  BY <1>0, <1>2, OrchestratorClosed, CommandsAreSafe
<1>3. CASE Command(ReopenLastClosedTab(browser))
  BY <1>0, <1>3, ReopenedSafely, CommandsAreSafe
<1>4. CASE \E forward \in BOOLEAN : Command(CycleTab(browser, forward))
  BY <1>0, <1>4, TabsCycled, CommandsAreSafe
<1>5. CASE Command(CycleWorkspace(browser))
  BY <1>0, <1>5, WorkspacesCycled, CommandsAreSafe
<1>6. CASE Command(ToggleProfile(browser))
  <2>1. BrowserSafe(ToggleProfile(browser))
    BY <1>0, PrivateModeEntered, PrivateModeLeft DEF ToggleProfile
  <2> QED BY <1>6, <2>1, CommandsAreSafe
<1>7. CASE \E i \in DOMAIN browser.tabs : Command(ActivateFocusItem(browser, browser.tabs[i].id))
  BY <1>0, <1>7, FocusItemActivated, CommandsAreSafe
<1>8. CASE \E ws \in WorkspaceIds : Command(OpenFocusItem(browser, ws))
  BY <1>0, <1>8, FocusItemOpened, CommandsAreSafe
<1> QED BY <1>1, <1>2, <1>3, <1>4, <1>5, <1>6, <1>7, <1>8 DEF Shortcut, FocusItemPressed

LEMMA PressIsSafe ==
  ASSUME WorkspacesSafe, PressStrip \/ PressSidebar
  PROVE  WorkspacesSafe' /\ bounds'.runs = bounds.runs
<1>0. /\ Base(browser) /\ StripIs(browser) /\ browser.active \in Nat
      /\ browser.rows \in Seq(Nat) /\ posted \in Seq(Presses)
  BY BrowserParts DEF WorkspacesSafe, BrowserSafe, Ready, Base, Browsers
<1>1. \E action \in Presses : Press(action)
  <2>1. CASE \E i \in DOMAIN browser.rows : Press([kind |-> "Activate", target |-> browser.rows[i]])
    <3>1. PICK i \in DOMAIN browser.rows : Press([kind |-> "Activate", target |-> browser.rows[i]])
      BY <2>1
    <3>2. browser.rows[i] \in Nat
      BY <1>0, ElementOfSeq, LenProperties
    <3>3. [kind |-> "Activate", target |-> browser.rows[i]] \in Presses
      BY <3>2 DEF Presses
    <3> QED BY <3>1, <3>3
  <2>2. CASE Press([kind |-> "Close", target |-> browser.active])
    <3>1. [kind |-> "Close", target |-> browser.active] \in Presses
      BY <1>0 DEF Presses
    <3> QED BY <2>2, <3>1
  <2>3. CASE Press([kind |-> "NewTab"])
    <3>1. [kind |-> "NewTab"] \in Presses
      BY DEF Presses
    <3> QED BY <2>3, <3>1
  <2>4. CASE \E ws \in WorkspaceIds : Press([kind |-> "SelectWorkspace", target |-> ws])
    <3>1. PICK ws \in WorkspaceIds : Press([kind |-> "SelectWorkspace", target |-> ws])
      BY <2>4
    <3>2. [kind |-> "SelectWorkspace", target |-> ws] \in Presses
      BY DEF Presses
    <3> QED BY <3>1, <3>2
  <2>5. CASE \E kind \in {"ToggleCollapsed", "ToggleDrawer", "Hide"} : Press([kind |-> kind])
    <3>1. PICK kind \in {"ToggleCollapsed", "ToggleDrawer", "Hide"} : Press([kind |-> kind])
      BY <2>5
    <3>2. [kind |-> kind] \in Presses
      BY DEF Presses
    <3> QED BY <3>1, <3>2
  <2> QED BY <2>1, <2>2, <2>3, <2>4, <2>5 DEF PressStrip, PressSidebar
<1>2. PICK action \in Presses : Press(action)
  BY <1>1
<1>3. posted' = Append(posted, action) /\ browser' = browser /\ sidebar' = sidebar
  BY <1>2 DEF Press
<1>4. posted' \in Seq(Presses)
  BY <1>0, <1>3, AppendProperties
<1>5. BoundsCount' /\ bounds'.runs = bounds.runs
  BY <1>2, TurnCounts DEF Press, Turn, WorkspacesSafe
<1> QED BY <1>3, <1>4, <1>5 DEF WorkspacesSafe

LEMMA HandlingIsSafe ==
  ASSUME WorkspacesSafe, HandlePress
  PROVE  WorkspacesSafe' /\ bounds'.runs = bounds.runs
<1>1. posted \in Seq(Presses) /\ posted # <<>>
  BY DEF WorkspacesSafe, HandlePress
<1>2. Head(posted) \in Presses /\ Tail(posted) \in Seq(Presses)
  BY <1>1, HeadTailProperties
<1>3. PICK page \in BOOLEAN : browser' = Handled(browser, Head(posted), page)
  BY DEF HandlePress
<1>4. BrowserSafe(browser')
  BY <1>2, <1>3, PressHandled DEF WorkspacesSafe
<1>5. SidebarSafe(sidebar')
  BY SidebarActed DEF WorkspacesSafe, HandlePress
<1> QED BY <1>2, <1>4, <1>5 DEF WorkspacesSafe, HandlePress, BoundsCount

LEMMA SidebarStepIsSafe ==
  ASSUME WorkspacesSafe,
         \/ ToggleAuraSidebar
         \/ \E state \in SidebarStates : ApplyGlobalAuraSidebarState(state)
         \/ FeedbackDismissTask
  PROVE  WorkspacesSafe' /\ bounds'.runs = bounds.runs
<1>0. /\ BrowserSafe(browser) /\ SidebarSafe(sidebar) /\ sidebar \in Sidebars
      /\ sidebar.visible \in BOOLEAN /\ sidebar.collapsed \in BOOLEAN
  BY SidebarParts DEF WorkspacesSafe, SidebarSafe
<1>1. CASE ToggleAuraSidebar
  <2>1. PICK v \in BOOLEAN, c \in BOOLEAN : v = ~sidebar.visible /\ c = sidebar.collapsed
    BY <1>0
  <2>2. sidebar' = [sidebar EXCEPT !.visible = v, !.collapsed = c]
    BY <1>0, <1>1, <2>1 DEF ToggleAuraSidebar, Sidebars
  <2>3. SidebarSafe([sidebar EXCEPT !.visible = v, !.collapsed = c])
    BY <1>0, SidebarMoved
  <2>4. Refresh(browser) = browser
    <3>1. browser.marked = browser.current /\ browser \in Browsers
      BY <1>0 DEF BrowserSafe, StripIs, Ready, Base
    <3> QED BY <3>1 DEF Refresh, Browsers
  <2>5. browser' = browser /\ posted' = posted
    BY <1>1, <2>4 DEF ToggleAuraSidebar
  <2>6. BoundsCount' /\ bounds'.runs = bounds.runs
    BY <1>1, TurnCounts DEF ToggleAuraSidebar, Turn, WorkspacesSafe
  <2>7. SidebarSafe(sidebar')
    BY <2>2, <2>3
  <2> QED BY <2>5, <2>6, <2>7 DEF WorkspacesSafe
<1>2. ASSUME NEW state \in SidebarStates, ApplyGlobalAuraSidebarState(state)
      PROVE  WorkspacesSafe' /\ bounds'.runs = bounds.runs
  <2>1. PICK v \in BOOLEAN, c \in BOOLEAN :
          /\ v = (state # "hidden")
          /\ c = IF state = "hidden" THEN sidebar.collapsed ELSE state # "expanded"
    BY <1>0
  <2>2. sidebar' = [sidebar EXCEPT !.visible = v, !.collapsed = c]
    BY <1>0, <1>2, <2>1 DEF ApplyGlobalAuraSidebarState, Sidebars
  <2>3. SidebarSafe([sidebar EXCEPT !.visible = v, !.collapsed = c])
    BY <1>0, SidebarMoved
  <2>4. PICK marked : marked = IF state = "hidden" THEN browser.marked ELSE browser.current
    OBVIOUS
  <2>5. browser' = [browser EXCEPT !.disk.sidebar = state, !.marked = marked]
    <3>1. browser \in Browsers
      BY <1>0 DEF BrowserSafe, Ready, Base
    <3> QED BY <1>2, <2>4, <3>1 DEF ApplyGlobalAuraSidebarState, Browsers
  <2>6. BrowserSafe([browser EXCEPT !.disk.sidebar = state, !.marked = marked])
    BY <1>0, <2>4, BrowserRefreshed
  <2>7. posted' = posted /\ BoundsCount' /\ bounds'.runs = bounds.runs
    BY <1>2, TurnCounts DEF ApplyGlobalAuraSidebarState, Turn, WorkspacesSafe
  <2>8. SidebarSafe(sidebar') /\ BrowserSafe(browser')
    BY <2>2, <2>3, <2>5, <2>6
  <2> QED BY <2>7, <2>8 DEF WorkspacesSafe
<1>3. CASE FeedbackDismissTask
  <2>1. SidebarSafe(sidebar')
    BY <1>0, <1>3, TimerFired DEF FeedbackDismissTask
  <2> QED BY <1>3, <2>1 DEF FeedbackDismissTask, WorkspacesSafe, BoundsCount
<1> QED BY <1>1, <1>2, <1>3

LEMMA RestartIsSafe ==
  ASSUME WorkspacesSafe, NEW clean \in BOOLEAN, Restart(clean)
  PROVE  WorkspacesSafe'
<1> DEFINE c == IF clean THEN ShutdownRuntime(browser) ELSE browser
<1>1. c \in Browsers /\ Restorable(c.disk.session.tabs, c.made)
  BY StoppedBrowser DEF WorkspacesSafe
<1>2. browser' = Launch(c)
  BY DEF Restart
<1> HIDE DEF c
<1>3. BrowserSafe(browser')
  BY <1>1, <1>2, Launched
<1>4. SidebarSafe(sidebar')
  BY SidebarNew DEF Restart
<1>5. posted' \in Seq(Presses) /\ BoundsCount'
  BY EmptySeq DEF Restart, BoundsCount, WorkspacesSafe
<1> QED BY <1>3, <1>4, <1>5 DEF WorkspacesSafe

LEMMA StepIsSafe ==
  ASSUME WorkspacesSafe, [Next]_vars
  PROVE  /\ WorkspacesSafe'
         /\ bounds'.runs = bounds.runs \/ \E clean \in BOOLEAN : Restart(clean)
<1>1. CASE UNCHANGED vars
  BY <1>1 DEF vars, WorkspacesSafe, BoundsCount
<1>2. CASE Shortcut \/ FocusItemPressed
  BY <1>2, ShortcutIsSafe
<1>3. CASE PressStrip \/ PressSidebar
  BY <1>3, PressIsSafe
<1>4. CASE HandlePress
  BY <1>4, HandlingIsSafe
<1>5. CASE \/ ToggleAuraSidebar
           \/ \E state \in SidebarStates : ApplyGlobalAuraSidebarState(state)
           \/ FeedbackDismissTask
  BY <1>5, SidebarStepIsSafe
<1>6. CASE \E clean \in BOOLEAN : Restart(clean)
  BY <1>6, RestartIsSafe
<1> QED BY <1>1, <1>2, <1>3, <1>4, <1>5, <1>6 DEF Next

LEMMA WorkspacesStaySafe == Spec => []WorkspacesSafe
<1>1. Init => WorkspacesSafe
  BY InitWorkspaces
<1>2. WorkspacesSafe /\ [Next]_vars => WorkspacesSafe'
  BY StepIsSafe
<1> QED BY <1>1, <1>2, PTL DEF Spec

\* For any workspaces, any number of tabs and of turns: the active tab always belongs to
\* the mode and to the active workspace, the strip lists the tabs of both, and the sidebar
\* marks that workspace.
THEOREM StripStaysCurrent == Spec => []StripIsCurrent
<1>1. WorkspacesSafe => StripIsCurrent
  BY DEF WorkspacesSafe, BrowserSafe, StripIs, StripIsCurrent
<1> QED BY <1>1, WorkspacesStaySafe, PTL

\* A message of the sidebar is shown exactly as long as its own timer runs, however many
\* older timers fire meanwhile.
THEOREM FeedbackLasts == Spec => []FeedbackLastsItsTime
<1>1. WorkspacesSafe => FeedbackLastsItsTime
  BY DEF WorkspacesSafe, SidebarSafe, FeedbackLastsItsTime, ToSet
<1> QED BY <1>1, WorkspacesStaySafe, PTL

\* A launch comes back to the workspace and the persistent tabs the last run had, after a
\* quit as after a crash at any point, in private mode or not.
THEOREM RestartBringsBack == Spec => RestartComesBack
<1> DEFINE Body ==
             bounds'.runs # bounds.runs /\ browser.active # NoTab /\ Persistent(browser) # <<>> =>
               LET kept == Persistent(browser)
               IN  /\ browser'.current = browser.current
                   /\ IF \E tab \in ToSet(kept) : Home(tab) = browser.current
                        THEN browser'.tabs = kept
                        ELSE \E tab \in ToSet(browser'.tabs) :
                               /\ browser'.tabs = Append(kept, tab)
                               /\ tab.ws = browser.current /\ ~tab.eph
<1>1. WorkspacesSafe /\ [Next]_vars => [Body]_vars
  <2> SUFFICES ASSUME WorkspacesSafe, [Next]_vars, bounds'.runs # bounds.runs,
                      Persistent(browser) # <<>>
               PROVE  Body
    BY DEF vars
  <2>1. PICK clean \in BOOLEAN : Restart(clean)
    BY StepIsSafe
  <2> DEFINE c    == IF clean THEN ShutdownRuntime(browser) ELSE browser
             kept == Persistent(browser)
  <2>2. /\ c \in Browsers /\ Restorable(c.disk.session.tabs, c.made)
        /\ c.disk.workspace = browser.current /\ c.disk.session.tabs = kept
    BY StoppedBrowser DEF WorkspacesSafe
  <2>3. browser' = Launch(c)
    BY <2>1 DEF Restart
  <2> HIDE DEF c, kept
  <2> DEFINE n == Launch(c)
             all == c.disk.session.tabs
  <2>4. /\ n.current = c.disk.workspace
        /\ all # <<>> =>
             IF \E tab \in ToSet(all) : Home(tab) = c.disk.workspace THEN n.tabs = all
             ELSE \E tab \in ToSet(n.tabs) :
                    n.tabs = Append(all, tab) /\ tab.ws = n.current /\ ~tab.eph
    BY <2>2, Launched
  <2> HIDE DEF n
  <2>5. kept # <<>> /\ all = kept
    BY <2>2 DEF kept
  <2> HIDE DEF all
  <2>6. n.current = browser.current
    BY <2>2, <2>4
  <2>7. IF \E tab \in ToSet(kept) : Home(tab) = browser.current THEN n.tabs = kept
        ELSE \E tab \in ToSet(n.tabs) :
               n.tabs = Append(kept, tab) /\ tab.ws = browser.current /\ ~tab.eph
    BY <2>2, <2>4, <2>5, <2>6
  <2>8. browser' = n
    BY <2>3 DEF n
  <2> QED BY <2>6, <2>7, <2>8 DEF kept
<1>2. Spec => [][Body]_vars
  BY <1>1, WorkspacesStaySafe, PTL DEF Spec
<1> QED BY <1>2 DEF RestartComesBack

-----------------------------------------------------------------------------
\* The Network Lab: what the UI thread keeps.

\* A task is the delivery of an event or a press on the panel.
IsEvent(e) ==
  /\ e = [id |-> e.id, tab |-> e.tab, kind |-> e.kind, url |-> e.url, status |-> e.status,
          error |-> e.error, seq |-> e.seq]
  /\ e.tab \in Tabs

IsTasks(ts) ==
  /\ \E T : ts \in Seq(T)
  /\ \A i \in 1 .. Len(ts) : ts[i].kind = "deliver" => IsEvent(ts[i].event)

IsPanel(p) ==
  /\ p = [visible |-> p.visible, told |-> p.told, tab |-> p.tab, selected |-> p.selected,
          scoped |-> p.scoped, status |-> p.status, query |-> p.query, view |-> p.view]
  /\ p.visible \in BOOLEAN /\ p.told \in BOOLEAN /\ p.scoped \in BOOLEAN

Lines == [kind: {"none", "start", "event", "cleared", "end"}, number: Nat]
Recorders == [recording: BOOLEAN, private: BOOLEAN, count: Nat, last: Lines, events: Nat]

\* A recording is of what the trace holds since it was last cleared, and never private.
RecorderSafe(rec, tr, mode) ==
  /\ rec \in Recorders /\ rec.private = mode
  /\ tr.next \in Nat
  /\ rec.recording =>
       /\ ~mode
       /\ rec.count = rec.events
       /\ rec.last.kind \in {"start", "event", "cleared"}
       /\ rec.last.kind = "event" => rec.last.number + 1 = tr.next
       /\ rec.last.kind = "cleared" => tr.next = 1

\* Rebuilt and Refreshed, given the log as well.
ViewOf(p, tr, lg, a) ==
  LET found == SelectSeq(AggregateRequests(tr, lg, Tabs), LAMBDA row : row.id = p.selected)
      rows  == Filtered(p.query, QueryRequests(tr, lg, Scope(p, a), p.status))
  IN  CASE p.tab = "Decisions" -> [p EXCEPT !.view = [kind |-> "decisions", rows |-> lg]]
        [] p.tab = "Requests" /\ p.selected # NoId /\ found # <<>> ->
             [p EXCEPT !.view = [kind |-> "details", rows |-> found]]
        [] OTHER -> [p EXCEPT !.view = [kind |-> "table", rows |-> Newest(rows, MaxRows)],
                              !.selected = NoId]

RefreshOf(p, tr, lg, a) ==
  IF p.visible THEN [ViewOf(p, tr, lg, a) EXCEPT !.told = TRUE]
  ELSE [ViewOf(p, tr, lg, a) EXCEPT !.view = EmptyTable]

ActiveIn(mode) == IF mode THEN PrivateTab ELSE PublicTab

\* The view of a panel that was told is the one it would build.
ViewSafe(p, tr, lg, mode) ==
  p.visible /\ p.told => p = ViewOf(p, tr, lg, ActiveIn(mode))

PressesOnly(ts) == \A i \in 1 .. Len(ts) : ts[i].kind = "press"

\* What RecordingIsWhole says of a step.
RecordingKept(rec, tr, rec2, tr2) ==
  LET written == rec2.events = rec.events + 1
  IN  /\ written => /\ rec.recording /\ rec2.last.kind = "event"
                    /\ rec.last.kind = "event" => rec2.last.number = rec.last.number + 1
                    /\ rec.last.kind = "cleared" => rec2.last.number = 1
      /\ rec.recording /\ ~rec2.recording
           => rec2.last.kind = "end" /\ rec2.last.number = rec.events
      /\ rec.recording /\ rec2.recording /\ tr2.next # tr.next
           => written \/ rec2.last.kind = "cleared"

\* The panel builds the same view again, since it deselects only what it does not show.
LEMMA RebuiltTwice ==
  ASSUME NEW p, IsPanel(p), NEW tr, NEW lg, NEW a, NEW q, q = RefreshOf(p, tr, lg, a)
  PROVE  /\ IsPanel(q) /\ q.visible = p.visible
         /\ q.visible /\ q.told => q = ViewOf(q, tr, lg, a)
<1> DEFINE found(id) == SelectSeq(AggregateRequests(tr, lg, Tabs), LAMBDA row : row.id = id)
           rows == Filtered(p.query, QueryRequests(tr, lg, Scope(p, a), p.status))
           top == [kind |-> "table", rows |-> Newest(rows, MaxRows)]
           dec == [kind |-> "decisions", rows |-> lg]
           det == [kind |-> "details", rows |-> found(p.selected)]
           b == ViewOf(p, tr, lg, a)
<1>1. b = CASE p.tab = "Decisions" -> [p EXCEPT !.view = dec]
            [] p.tab = "Requests" /\ p.selected # NoId /\ found(p.selected) # <<>> ->
                 [p EXCEPT !.view = det]
            [] OTHER -> [p EXCEPT !.view = top, !.selected = NoId]
  BY DEF ViewOf
<1>2. q = IF p.visible THEN [b EXCEPT !.told = TRUE] ELSE [b EXCEPT !.view = EmptyTable]
  BY DEF RefreshOf
<1>3. ASSUME q.query = p.query, q.scoped = p.scoped, q.status = p.status
      PROVE  ViewOf(q, tr, lg, a) =
          CASE q.tab = "Decisions" -> [q EXCEPT !.view = dec]
            [] q.tab = "Requests" /\ q.selected # NoId /\ found(q.selected) # <<>> ->
                 [q EXCEPT !.view = [kind |-> "details", rows |-> found(q.selected)]]
            [] OTHER -> [q EXCEPT !.view = top, !.selected = NoId]
  BY <1>3 DEF ViewOf, Scope
<1>4. p = [visible |-> p.visible, told |-> p.told, tab |-> p.tab, selected |-> p.selected,
           scoped |-> p.scoped, status |-> p.status, query |-> p.query, view |-> p.view]
      /\ p.visible \in BOOLEAN /\ p.told \in BOOLEAN /\ p.scoped \in BOOLEAN
  BY DEF IsPanel
<1> DEFINE Of(told, selected, view) ==
      [visible |-> p.visible, told |-> told, tab |-> p.tab, selected |-> selected,
       scoped |-> p.scoped, status |-> p.status, query |-> p.query, view |-> view]
<1>5. b = CASE p.tab = "Decisions" -> Of(p.told, p.selected, dec)
            [] p.tab = "Requests" /\ p.selected # NoId /\ found(p.selected) # <<>> ->
                 Of(p.told, p.selected, det)
            [] OTHER -> Of(p.told, NoId, top)
  <2> HIDE DEF b, found, top, dec, det
  <2>1. \A v : [p EXCEPT !.view = v] = Of(p.told, p.selected, v)
    BY <1>4
  <2>2. [p EXCEPT !.view = top, !.selected = NoId] = Of(p.told, NoId, top)
    <3>1. PICK r : r = [p EXCEPT !.view = top, !.selected = NoId]
      OBVIOUS
    <3>2. r = Of(p.told, NoId, top)
      BY <1>4, <3>1
    <3> QED BY <3>1, <3>2
  <2> HIDE DEF Of
  <2> QED BY <1>1, <2>1, <2>2
<1> HIDE DEF b, found, top, dec, det
<1>6. CASE ~p.visible
  <2>1. PICK s, v : b = Of(p.told, s, v)
    BY <1>5
  <2>2. q = Of(p.told, s, EmptyTable)
    BY <1>2, <1>6, <2>1
  <2> QED BY <1>4, <1>6, <2>2 DEF IsPanel
<1>7. CASE p.visible
  <2>1. q = CASE p.tab = "Decisions" -> Of(TRUE, p.selected, dec)
            [] p.tab = "Requests" /\ p.selected # NoId /\ found(p.selected) # <<>> ->
                 Of(TRUE, p.selected, det)
            [] OTHER -> Of(TRUE, NoId, top)
    BY <1>2, <1>5, <1>7
  <2>2. PICK s, v : q = Of(TRUE, s, v)
    BY <2>1
  <2>3. IsPanel(q) /\ q.visible = p.visible
    BY <1>4, <2>2 DEF IsPanel
  <2>4. q.query = p.query /\ q.scoped = p.scoped /\ q.status = p.status /\ q.tab = p.tab
        /\ q.selected = s
    BY <2>2
  <2>5. ViewOf(q, tr, lg, a) =
          CASE p.tab = "Decisions" -> [q EXCEPT !.view = dec]
            [] p.tab = "Requests" /\ s # NoId /\ found(s) # <<>> ->
                 [q EXCEPT !.view = [kind |-> "details", rows |-> found(s)]]
            [] OTHER -> [q EXCEPT !.view = top, !.selected = NoId]
    BY <1>3, <2>4
  <2>6. CASE p.tab = "Decisions"
    <3>1. q = Of(TRUE, p.selected, dec) BY <2>1, <2>6
    <3>a. q.view = dec BY <3>1
    <3>2. [q EXCEPT !.view = dec] = q  BY <2>3, <3>a DEF IsPanel
    <3> QED BY <2>3, <2>5, <2>6, <3>2
  <2>7. CASE p.tab # "Decisions" /\ p.tab = "Requests" /\ p.selected # NoId /\ found(p.selected) # <<>>
    <3>1. q = Of(TRUE, p.selected, det) BY <2>1, <2>7
    <3>2. s = p.selected BY <3>1, <2>4
    <3>a. q.view = det BY <3>1, <2>4
    <3>3. [q EXCEPT !.view = det] = q  BY <2>3, <3>a DEF IsPanel
    <3>4. ViewOf(q, tr, lg, a) = [q EXCEPT !.view = det] BY <2>5, <2>7, <3>2 DEF det
    <3> QED BY <2>3, <3>3, <3>4
  <2>8. CASE p.tab # "Decisions" /\ ~(p.tab = "Requests" /\ p.selected # NoId /\ found(p.selected) # <<>>)
    <3>1. q = Of(TRUE, NoId, top) BY <2>1, <2>8
    <3>2. s = NoId BY <3>1, <2>4
    <3>a. q.view = top /\ q.selected = NoId BY <3>1
    <3>3. [q EXCEPT !.view = top, !.selected = NoId] = q  BY <2>3, <3>a DEF IsPanel
    <3>4. ViewOf(q, tr, lg, a) = [q EXCEPT !.view = top, !.selected = NoId] BY <2>5, <2>8, <3>2
    <3> QED BY <2>3, <3>3, <3>4
  <2> QED BY <2>6, <2>7, <2>8
<1> QED BY <1>4, <1>6, <1>7

-----------------------------------------------------------------------------
\* The recorder.

LEMMA DeliveryRecorded ==
  ASSUME NEW rec, NEW tr, NEW mode, RecorderSafe(rec, tr, mode), NEW e, IsEvent(e),
         NEW rec2, rec2 = RecordEvent(rec, Stamped(tr, e)), NEW tr2, tr2 = Add(tr, e)
  PROVE  RecorderSafe(rec2, tr2, mode) /\ RecordingKept(rec, tr, rec2, tr2)
<1>1. Stamped(tr, e).seq = tr.next
  BY DEF IsEvent, Stamped
<1>2. tr2.next = tr.next + 1
  BY DEF Add
<1>3. rec2 = IF ~rec.recording \/ rec.private THEN rec
             ELSE [rec EXCEPT !.count = @ + 1, !.last = Line("event", tr.next), !.events = @ + 1]
  BY <1>1 DEF RecordEvent
<1>4. rec \in Recorders /\ rec.private = mode /\ tr.next \in Nat
  BY DEF RecorderSafe
<1>5. CASE ~rec.recording \/ rec.private
  <2>1. rec2 = rec /\ ~rec.recording
    BY <1>3, <1>4, <1>5 DEF RecorderSafe, Recorders
  <2> QED BY <1>2, <1>4, <2>1 DEF RecorderSafe, RecordingKept, Recorders
<1>6. CASE rec.recording /\ ~rec.private
  <2> DEFINE line == Line("event", tr.next)
  <2>1. rec2 = [rec EXCEPT !.count = @ + 1, !.last = line, !.events = @ + 1]
    BY <1>3, <1>6
  <2>2. line \in Lines /\ line.kind = "event" /\ line.number = tr.next
    BY <1>4 DEF Line, Lines
  <2> HIDE DEF line
  <2>3. rec2.recording /\ rec2.private = rec.private /\ rec2.count = rec.count + 1
        /\ rec2.last = line /\ rec2.events = rec.events + 1
    BY <1>4, <1>6, <2>1 DEF Recorders
  <2>a. rec2 = [recording |-> rec2.recording, private |-> rec2.private, count |-> rec2.count,
                last |-> rec2.last, events |-> rec2.events]
    BY <1>4, <2>1 DEF Recorders
  <2>b. rec.recording \in BOOLEAN /\ rec.private \in BOOLEAN /\ rec.count + 1 \in Nat
        /\ rec.events + 1 \in Nat
    BY <1>4 DEF Recorders
  <2>4. rec2 \in Recorders
    BY <1>6, <2>2, <2>3, <2>a, <2>b DEF Recorders
  <2>5. /\ ~mode /\ rec.count = rec.events
        /\ rec.last.kind = "event" => rec.last.number + 1 = tr.next
        /\ rec.last.kind = "cleared" => tr.next = 1
    BY <1>6 DEF RecorderSafe
  <2>6. RecorderSafe(rec2, tr2, mode)
    BY <1>2, <1>4, <2>2, <2>3, <2>4, <2>5 DEF RecorderSafe
  <2>7. rec.last \in Lines
    BY <1>4 DEF Recorders
  <2>8. rec.last.kind = "event" => line.number = rec.last.number + 1
    BY <2>2, <2>5, <2>7 DEF Lines
  <2> QED BY <1>6, <2>2, <2>3, <2>5, <2>6, <2>8 DEF RecordingKept
<1> QED BY <1>5, <1>6

LEMMA ClearingRecorded ==
  ASSUME NEW rec, NEW tr, NEW mode, RecorderSafe(rec, tr, mode),
         NEW rec2, rec2 = OnTraceCleared(rec), NEW tr2, tr2 = Clear(tr)
  PROVE  RecorderSafe(rec2, tr2, mode) /\ RecordingKept(rec, tr, rec2, tr2)
<1>1. tr2.next = 1
  BY DEF Clear, EmptyTrace
<1>2. rec \in Recorders /\ rec.private = mode /\ rec.events # rec.events + 1
  BY DEF RecorderSafe, Recorders
<1>3. CASE ~rec.recording
  BY <1>1, <1>2, <1>3 DEF OnTraceCleared, RecorderSafe, RecordingKept, Recorders
<1>4. CASE rec.recording
  <2> DEFINE line == Line("cleared", 0)
  <2>1. rec2 = [rec EXCEPT !.last = line]
    BY <1>4 DEF OnTraceCleared
  <2>2. line \in Lines /\ line.kind = "cleared"
    BY DEF Line, Lines
  <2> HIDE DEF line
  <2>3. rec2.recording /\ rec2.private = rec.private /\ rec2.count = rec.count
        /\ rec2.last = line /\ rec2.events = rec.events /\ rec2 \in Recorders
    BY <1>2, <1>4, <2>1, <2>2 DEF Recorders
  <2> QED BY <1>1, <1>2, <1>4, <2>2, <2>3 DEF RecorderSafe, RecordingKept
<1> QED BY <1>3, <1>4

LEMMA RecordingToggled ==
  ASSUME NEW rec, NEW tr, NEW mode, RecorderSafe(rec, tr, mode), rec.recording \/ ~mode, NEW rec2,
         rec2 = IF rec.recording THEN StopRecording(rec) ELSE StartRecording(rec)
  PROVE  RecorderSafe(rec2, tr, mode) /\ RecordingKept(rec, tr, rec2, tr)
<1>1. rec \in Recorders /\ rec.private = mode /\ tr.next \in Nat /\ rec.events \in Nat
      /\ rec.count \in Nat
  BY DEF RecorderSafe, Recorders
<1>2. rec.events # rec.events + 1 /\ 0 # rec.events + 1
  BY <1>1
<1>3. CASE rec.recording
  <2> DEFINE line == Line("end", rec.count)
  <2>1. rec2 = [rec EXCEPT !.recording = FALSE, !.last = line]
    BY <1>3 DEF StopRecording
  <2>2. line \in Lines /\ line.kind = "end" /\ line.number = rec.count
    BY <1>1 DEF Line, Lines
  <2> HIDE DEF line
  <2>3. ~rec2.recording /\ rec2.private = rec.private /\ rec2.last = line
        /\ rec2.events = rec.events /\ rec2 \in Recorders
    BY <1>1, <2>1, <2>2 DEF Recorders
  <2> QED BY <1>1, <1>2, <1>3, <2>2, <2>3 DEF RecorderSafe, RecordingKept
<1>4. CASE ~rec.recording
  <2> DEFINE line == Line("start", 0)
  <2>1. rec2 = [rec EXCEPT !.recording = TRUE, !.count = 0, !.last = line, !.events = 0]
    BY <1>1, <1>4 DEF StartRecording
  <2>2. line \in Lines /\ line.kind = "start"
    BY DEF Line, Lines
  <2> HIDE DEF line
  <2>a. rec2 = [recording |-> rec2.recording, private |-> rec2.private, count |-> rec2.count,
                last |-> rec2.last, events |-> rec2.events]
    BY <1>1, <2>1 DEF Recorders
  <2>b. rec2.recording /\ rec2.private = rec.private /\ rec2.last = line /\ rec2.count = 0
        /\ rec2.events = 0
    BY <1>1, <2>1 DEF Recorders
  <2>c. rec.private \in BOOLEAN /\ 0 \in Nat /\ TRUE \in BOOLEAN
    BY <1>1 DEF Recorders
  <2>3. rec2.recording /\ rec2.private = rec.private /\ rec2.last = line /\ rec2.count = 0
        /\ rec2.events = 0 /\ rec2 \in Recorders
    BY <2>2, <2>a, <2>b, <2>c DEF Recorders
  <2> QED BY <1>1, <1>2, <1>4, <2>2, <2>3 DEF RecorderSafe, RecordingKept
<1> QED BY <1>3, <1>4

\* A recording does not outlast the switch to private mode.
LEMMA SwitchRecorded ==
  ASSUME NEW rec, NEW tr, NEW mode \in BOOLEAN, RecorderSafe(rec, tr, mode), NEW mode2,
         mode2 = ~mode, NEW rec2, rec2 = SetPrivateMode(rec, mode2)
  PROVE  RecorderSafe(rec2, tr, mode2) /\ RecordingKept(rec, tr, rec2, tr)
<1>1. rec \in Recorders /\ rec.private = mode /\ tr.next \in Nat /\ rec.events \in Nat
      /\ rec.count \in Nat /\ mode2 \in BOOLEAN
  BY DEF RecorderSafe, Recorders
<1>2. rec.events # rec.events + 1
  BY <1>1
<1> DEFINE set == [rec EXCEPT !.private = mode2]
<1>3. rec2 = IF mode2 THEN StopRecording(set) ELSE set
  BY DEF SetPrivateMode
<1>4. set.recording = rec.recording /\ set.private = mode2 /\ set.last = rec.last
      /\ set.count = rec.count /\ set.events = rec.events /\ set \in Recorders
  BY <1>1 DEF Recorders
<1> HIDE DEF set
<1>5. CASE ~mode2
  BY <1>1, <1>2, <1>3, <1>4, <1>5 DEF RecorderSafe, RecordingKept
<1>6. CASE mode2 /\ ~rec.recording
  <2>1. rec2 = set
    BY <1>3, <1>4, <1>6 DEF StopRecording
  <2> QED BY <1>1, <1>2, <1>4, <1>6, <2>1 DEF RecorderSafe, RecordingKept
<1>7. CASE mode2 /\ rec.recording
  <2> DEFINE line == Line("end", rec.count)
  <2>1. rec2 = [set EXCEPT !.recording = FALSE, !.last = line]
    BY <1>3, <1>4, <1>7 DEF StopRecording
  <2>2. line \in Lines /\ line.kind = "end" /\ line.number = rec.count
    BY <1>1 DEF Line, Lines
  <2> HIDE DEF line
  <2>3. ~rec2.recording /\ rec2.private = mode2 /\ rec2.last = line
        /\ rec2.events = rec.events /\ rec2 \in Recorders
    BY <1>1, <1>4, <2>1, <2>2 DEF Recorders
  <2> QED BY <1>1, <1>2, <1>7, <2>2, <2>3 DEF RecorderSafe, RecordingKept
<1> QED BY <1>1, <1>5, <1>6, <1>7

-----------------------------------------------------------------------------
\* The tasks and the panel.

LEMMA TaskPosted ==
  ASSUME NEW ts, IsTasks(ts), NEW x, x.kind = "deliver" => IsEvent(x.event), NEW ts2,
         ts2 = Append(ts, x)
  PROVE  /\ IsTasks(ts2) /\ Len(ts2) = Len(ts) + 1 /\ Len(ts) \in Nat /\ ts2[Len(ts) + 1] = x
         /\ \A i \in 1 .. Len(ts) : ts2[i] = ts[i]
         /\ PressesOnly(ts2) => PressesOnly(ts) /\ x.kind = "press"
<1>1. PICK T : ts \in Seq(T)
  BY DEF IsTasks
<1>2. ts2 \in Seq(T \cup {x}) /\ Len(ts2) = Len(ts) + 1 /\ Len(ts) \in Nat
      /\ ts2[Len(ts) + 1] = x /\ \A i \in 1 .. Len(ts) : ts2[i] = ts[i]
  BY <1>1
<1>3. \A i \in 1 .. Len(ts2) : i \in 1 .. Len(ts) \/ i = Len(ts) + 1
  BY <1>2
<1>4. \A i \in 1 .. Len(ts2) : ts2[i].kind = "deliver" => IsEvent(ts2[i].event)
  BY <1>2, <1>3 DEF IsTasks
<1>5. PressesOnly(ts2) => PressesOnly(ts) /\ x.kind = "press"
  BY <1>2 DEF PressesOnly
<1> HIDE DEF PressesOnly
<1> QED BY <1>2, <1>4, <1>5 DEF IsTasks

LEMMA TaskTaken ==
  ASSUME NEW ts, IsTasks(ts), ts # <<>>, NEW ts2, ts2 = Tail(ts)
  PROVE  /\ IsTasks(ts2) /\ Len(ts2) = Len(ts) - 1 /\ Len(ts) \in Nat \ {0} /\ Head(ts) = ts[1]
         /\ \A i \in 1 .. Len(ts2) : ts2[i] = ts[i + 1]
<1>1. PICK T : ts \in Seq(T)
  BY DEF IsTasks
<1>2. ts2 \in Seq(T) /\ Len(ts2) = Len(ts) - 1 /\ Len(ts) \in Nat \ {0} /\ Head(ts) = ts[1]
      /\ \A i \in 1 .. Len(ts2) : ts2[i] = ts[i + 1]
  BY <1>1
<1>3. \A i \in 1 .. Len(ts2) : i + 1 \in 1 .. Len(ts)
  BY <1>2
<1>4. \A i \in 1 .. Len(ts2) : ts2[i].kind = "deliver" => IsEvent(ts2[i].event)
  BY <1>2, <1>3 DEF IsTasks
<1> QED BY <1>2, <1>4 DEF IsTasks

\* What is told to a panel leaves it as it would build itself.
LEMMA PanelTold ==
  ASSUME NEW p, IsPanel(p), NEW tr, NEW lg, NEW mode, NEW q,
         q = IF p.visible THEN RefreshOf(p, tr, lg, ActiveIn(mode)) ELSE p
  PROVE  IsPanel(q) /\ ViewSafe(q, tr, lg, mode)
<1>1. CASE p.visible
  <2>1. q = RefreshOf(p, tr, lg, ActiveIn(mode))
    BY <1>1
  <2> QED BY <2>1, RebuiltTwice DEF ViewSafe
<1>2. CASE ~p.visible
  BY <1>2 DEF ViewSafe
<1> QED BY <1>1, <1>2 DEF IsPanel

\* The view does not depend on the mode unless the panel is scoped to the active tab.
LEMMA PanelOfSession ==
  ASSUME NEW p, IsPanel(p), NEW tr, NEW lg, NEW mode, NEW mode2, ViewSafe(p, tr, lg, mode),
         NEW q, q = IF p.scoped THEN IF p.visible THEN RefreshOf(p, tr, lg, ActiveIn(mode2)) ELSE p
                    ELSE p
  PROVE  IsPanel(q) /\ ViewSafe(q, tr, lg, mode2)
<1>1. CASE p.scoped
  <2>1. q = IF p.visible THEN RefreshOf(p, tr, lg, ActiveIn(mode2)) ELSE p
    BY <1>1
  <2> QED BY <2>1, PanelTold
<1>2. CASE ~p.scoped
  <2>1. ViewOf(p, tr, lg, ActiveIn(mode)) = ViewOf(p, tr, lg, ActiveIn(mode2))
    BY <1>2 DEF ViewOf, Scope
  <2> QED BY <1>2, <2>1 DEF ViewSafe
<1> QED BY <1>1, <1>2 DEF IsPanel

\* What the UI thread keeps agrees.
UiSafe ==
  /\ IsTasks(tasks) /\ IsPanel(panel) /\ private \in BOOLEAN
  /\ RecorderSafe(recorder, trace, private)
  /\ PressesOnly(tasks) => ViewSafe(panel, trace, log, private)

UiStep == UiSafe' /\ RecordingKept(recorder, trace, recorder', trace')

LEMMA RefreshedByLog ==
  ASSUME NEW p, NEW tr, NEW a
  PROVE  /\ Rebuilt(p, tr, a) = ViewOf(p, tr, log, a)
         /\ Refreshed(p, tr, a) = RefreshOf(p, tr, log, a)
<1>1. Rebuilt(p, tr, a) = ViewOf(p, tr, log, a)
  BY DEF Rebuilt, FindRequest, ViewOf
<1> QED BY <1>1 DEF Refreshed, RefreshOf

LEMMA NothingRecorded ==
  ASSUME NEW rec, NEW tr, NEW mode, RecorderSafe(rec, tr, mode)
  PROVE  RecordingKept(rec, tr, rec, tr)
<1>1. rec.events \in Nat /\ rec.recording \in BOOLEAN
  BY DEF RecorderSafe, Recorders
<1>2. rec.events # rec.events + 1
  BY <1>1
<1> QED BY <1>1, <1>2 DEF RecordingKept

\* What the IO thread does leaves the records of the UI thread alone, and the view too until
\* its event is delivered.
LEMMA PostKeepsUi ==
  ASSUME UiSafe, UNCHANGED uiVars, IsTasks(tasks'), ~PressesOnly(tasks')
  PROVE  UiStep
<1>1. RecordingKept(recorder, trace, recorder, trace)
  BY NothingRecorded DEF UiSafe
<1>2. UiSafe'
  BY DEF UiSafe, uiVars
<1> QED BY <1>1, <1>2 DEF UiStep, uiVars

LEMMA DeliverKeepsUi ==
  ASSUME UiSafe, tasks # <<>>, tasks' = Tail(tasks), Head(tasks).kind = "deliver",
         Deliver(Head(tasks).event), Others, UNCHANGED turns
  PROVE  UiStep
<1>1. PICK e : e = Head(tasks).event
  OBVIOUS
<1>2. IsTasks(tasks') /\ Head(tasks) = tasks[1] /\ 1 \in 1 .. Len(tasks)
  <2>1. PICK ts2 : ts2 = Tail(tasks)
    OBVIOUS
  <2>2. IsTasks(ts2) /\ Head(tasks) = tasks[1] /\ Len(tasks) \in Nat \ {0}
    BY <2>1, TaskTaken DEF UiSafe
  <2> QED BY <2>1, <2>2
<1>3. IsEvent(e)
  BY <1>1, <1>2 DEF UiSafe, IsTasks
<1>4. /\ trace' = Add(trace, e) /\ recorder' = RecordEvent(recorder, Stamped(trace, e))
      /\ panel' = Told(panel, trace', ActiveTab) /\ private' = private /\ log' = log
  BY <1>1 DEF Deliver, Others
<1>5. PICK tr : tr = trace'
  OBVIOUS
<1>6. PICK q : q = panel'
  OBVIOUS
<1>7. q = IF panel.visible THEN RefreshOf(panel, tr, log, ActiveIn(private)) ELSE panel
  BY <1>4, <1>5, <1>6, RefreshedByLog DEF Told, ActiveTab, ActiveIn
<1>8. IsPanel(q) /\ ViewSafe(q, tr, log, private)
  BY <1>7, PanelTold DEF UiSafe
<1>9. PICK rec : rec = recorder'
  OBVIOUS
<1>10. RecorderSafe(rec, tr, private) /\ RecordingKept(recorder, trace, rec, tr)
  BY <1>3, <1>4, <1>5, <1>9, DeliveryRecorded DEF UiSafe
<1> QED BY <1>2, <1>4, <1>5, <1>6, <1>8, <1>9, <1>10 DEF UiSafe, UiStep

LEMMA HandleActionKeepsUi ==
  ASSUME UiSafe, tasks # <<>>, tasks' = Tail(tasks), HandleAction(Head(tasks)), Others,
         UNCHANGED turns
  PROVE  UiStep
<1>1. PICK press : press = Head(tasks)
  OBVIOUS
<1>2. IsTasks(tasks')
  <2>1. PICK ts2 : ts2 = Tail(tasks)
    OBVIOUS
  <2> QED BY <2>1, TaskTaken DEF UiSafe
<1>3. log' = log
  BY DEF Others
<1>p. IsPanel(panel) /\ private \in BOOLEAN /\ RecorderSafe(recorder, trace, private)
  BY DEF UiSafe
<1>r. RecordingKept(recorder, trace, recorder, trace)
  BY <1>p, NothingRecorded
<1>4. CASE press.action = "Close"
  <2>1. panel' = [panel EXCEPT !.visible = FALSE, !.told = FALSE, !.view = EmptyTable]
        /\ UNCHANGED <<trace, recorder, private>>
    BY <1>1, <1>4 DEF HandleAction, Turned
  <2>2. IsPanel(panel') /\ ~panel'.visible
    BY <1>p, <2>1 DEF IsPanel
  <2> QED BY <1>2, <1>p, <1>r, <2>1, <2>2 DEF UiSafe, UiStep, ViewSafe
<1>5. CASE press.action = "Clear"
  <2> DEFINE p == [panel EXCEPT !.selected = NoId]
  <2>1. trace' = Clear(trace) /\ recorder' = OnTraceCleared(recorder)
        /\ panel' = Told(p, trace', ActiveTab) /\ private' = private
    BY <1>1, <1>5 DEF HandleAction
  <2>2. IsPanel(p)
    BY <1>p DEF IsPanel
  <2> HIDE DEF p
  <2>3. PICK tr : tr = trace'
    OBVIOUS
  <2>4. PICK q : q = panel'
    OBVIOUS
  <2>5. PICK rec : rec = recorder'
    OBVIOUS
  <2>6. q = IF p.visible THEN RefreshOf(p, tr, log, ActiveIn(private)) ELSE p
    BY <2>1, <2>3, <2>4, RefreshedByLog DEF Told, ActiveTab, ActiveIn
  <2>7. IsPanel(q) /\ ViewSafe(q, tr, log, private)
    BY <2>2, <2>6, PanelTold
  <2>8. RecorderSafe(rec, tr, private) /\ RecordingKept(recorder, trace, rec, tr)
    BY <1>p, <2>1, <2>3, <2>5, ClearingRecorded
  <2> QED BY <1>2, <1>3, <1>p, <2>1, <2>3, <2>4, <2>5, <2>7, <2>8 DEF UiSafe, UiStep
<1>6. CASE press.action \notin {"Close", "Clear"}
  <2>1. \E p : /\ IsPanel(p) /\ panel' = Refreshed(p, trace, ActiveTab)
               /\ UNCHANGED <<trace, recorder, private>>
    <3> DEFINE p == [panel EXCEPT !.selected = IF press.action = "Select" THEN press.id
                                      ELSE IF press.action \in {"Deselect", "Requests", "Apply"}
                                      THEN NoId ELSE @,
                         !.scoped = IF press.action = "Scope" THEN ~@ ELSE @,
                         !.status = IF press.action # "Status" THEN @
                                    ELSE CASE @ = "ALL" -> "2XX" [] @ = "2XX" -> "ERR"
                                           [] OTHER -> "ALL",
                         !.tab = IF press.action \in {"Requests", "Decisions"}
                                 THEN press.action ELSE @,
                         !.query = IF press.action = "Apply" THEN press.query ELSE @]
    <3>1. panel' = Refreshed(p, trace, ActiveTab) /\ UNCHANGED <<trace, recorder, private>>
      BY <1>1, <1>6 DEF HandleAction
    <3> DEFINE a == IF press.action = "Select" THEN press.id
                    ELSE IF press.action \in {"Deselect", "Requests", "Apply"} THEN NoId
                    ELSE panel.selected
               b == IF press.action = "Scope" THEN ~panel.scoped ELSE panel.scoped
               c == IF press.action # "Status" THEN panel.status
                    ELSE CASE panel.status = "ALL" -> "2XX" [] panel.status = "2XX" -> "ERR"
                           [] OTHER -> "ALL"
               d == IF press.action \in {"Requests", "Decisions"} THEN press.action
                    ELSE panel.tab
               f == IF press.action = "Apply" THEN press.query ELSE panel.query
    <3>2. p = [panel EXCEPT !.selected = a, !.scoped = b, !.status = c, !.tab = d, !.query = f]
      OBVIOUS
    <3>b. b \in BOOLEAN
      BY <1>p DEF IsPanel
    <3> HIDE DEF a, b, c, d, f
    <3> HIDE DEF p
    <3>3. p = [visible |-> p.visible, told |-> p.told, tab |-> p.tab, selected |-> p.selected,
               scoped |-> p.scoped, status |-> p.status, query |-> p.query, view |-> p.view]
      BY <1>p, <3>2 DEF IsPanel
    <3>4. p.visible = panel.visible /\ p.told = panel.told /\ p.scoped = b
      BY <1>p, <3>2 DEF IsPanel
    <3>5. IsPanel(p)
      BY <1>p, <3>b, <3>3, <3>4 DEF IsPanel
    <3> QED BY <3>1, <3>5
  <2>2. PICK p : /\ IsPanel(p) /\ panel' = Refreshed(p, trace, ActiveTab)
                 /\ UNCHANGED <<trace, recorder, private>>
    BY <2>1
  <2>3. PICK q : q = panel'
    OBVIOUS
  <2>4. q = RefreshOf(p, trace, log, ActiveIn(private))
    BY <2>2, <2>3, RefreshedByLog DEF ActiveTab, ActiveIn
  <2>5. IsPanel(q) /\ ViewSafe(q, trace, log, private)
    BY <2>2, <2>4, RebuiltTwice DEF ViewSafe
  <2> QED BY <1>2, <1>3, <1>p, <1>r, <2>2, <2>3, <2>5 DEF UiSafe, UiStep
<1> QED BY <1>4, <1>5, <1>6

LEMMA OnePosted ==
  ASSUME NEW ts, IsTasks(ts), NEW e, IsEvent(e), NEW ts2, ts2 = ts \o <<Delivery(e)>>
  PROVE  ts2 = Append(ts, Delivery(e)) /\ IsTasks(ts2) /\ ~PressesOnly(ts2)
<1>1. PICK T : ts \in Seq(T)
  BY DEF IsTasks
<1>2. PICK x : x = Delivery(e)
  OBVIOUS
<1>3. x.kind = "deliver" /\ x.event = e
  BY <1>2 DEF Delivery
<1>4. Append(ts, x) = ts \o <<x>>
  BY <1>1
<1>5. ts2 = Append(ts, x)
  BY <1>2, <1>4
<1>6. IsTasks(ts2) /\ ~PressesOnly(ts2)
  BY <1>3, <1>5, TaskPosted
<1> QED BY <1>2, <1>5, <1>6

LEMMA TwoPosted ==
  ASSUME NEW ts, IsTasks(ts), NEW d, IsEvent(d), NEW e, IsEvent(e), NEW ts2,
         ts2 = ts \o <<Delivery(d), Delivery(e)>>
  PROVE  /\ ts2 = Append(Append(ts, Delivery(d)), Delivery(e))
         /\ IsTasks(ts2) /\ ~PressesOnly(ts2)
<1>1. PICK T : ts \in Seq(T)
  BY DEF IsTasks
<1>2. PICK x, y : x = Delivery(d) /\ y = Delivery(e)
  OBVIOUS
<1>3. x.kind = "deliver" /\ x.event = d /\ y.kind = "deliver" /\ y.event = e
  BY <1>2 DEF Delivery
<1>4. PICK ts1 : ts1 = Append(ts, x)
  OBVIOUS
<1>5. IsTasks(ts1)
  BY <1>2, <1>3, <1>4, TaskPosted
<1>6. Append(ts1, y) = ts \o <<x, y>>
  BY <1>1, <1>4
<1>7. ts2 = Append(ts1, y)
  BY <1>2, <1>6
<1>8. IsTasks(ts2) /\ ~PressesOnly(ts2)
  BY <1>3, <1>5, <1>7, TaskPosted
<1> QED BY <1>2, <1>4, <1>7, <1>8

LEMMA EventProperties ==
  ASSUME NEW r \in Requests, NEW kind, NEW url, NEW status, NEW error, NEW e,
         e = Event(r, kind, url, status, error)
  PROVE  /\ IsEvent(e) /\ e.id = TraceRequestId(r) /\ e.kind = kind /\ e.url = url
         /\ e.error = error
BY TabOfRequestAssumption DEF Event, IsEvent

\* The steps of the IO thread.
Io(r) ==
  \/ OnBeforeResourceLoad(r) \/ OnResourceRedirect(r)
  \/ OnResourceResponse(r) \/ OnResourceLoadComplete(r)

LEMMA IoPosts ==
  ASSUME NEW r \in Requests, Io(r), IsTasks(tasks)
  PROVE  UNCHANGED uiVars /\ IsTasks(tasks') /\ ~PressesOnly(tasks')
<1> DEFINE Posted == IsTasks(tasks') /\ ~PressesOnly(tasks')
<1>1. ASSUME NEW e, IsEvent(e), Post(<<Delivery(e)>>) PROVE Posted
  <2>1. PICK ts2 : ts2 = tasks'
    OBVIOUS
  <2>2. ts2 = tasks \o <<Delivery(e)>>
    BY <1>1, <2>1 DEF Post
  <2> QED BY <1>1, <2>1, <2>2, OnePosted
<1>2. ASSUME NEW d, IsEvent(d), NEW e, IsEvent(e), Post(<<Delivery(d), Delivery(e)>>) PROVE Posted
  <2>1. PICK ts2 : ts2 = tasks'
    OBVIOUS
  <2>2. ts2 = tasks \o <<Delivery(d), Delivery(e)>>
    BY <1>2, <2>1 DEF Post
  <2>3. IsTasks(ts2) /\ ~PressesOnly(ts2)
    <3>1. IsTasks(tasks) /\ IsEvent(d) /\ IsEvent(e)
      BY <1>2
    <3> QED BY <3>1, <2>2, TwoPosted
  <2> QED BY <2>1, <2>3
<1>3. \A kind, url, status, error : IsEvent(Event(r, kind, url, status, error))
  BY EventProperties
<1> HIDE DEF Posted
<1>4. ASSUME NEW reason, NEW dec, Block(r, reason, dec) PROVE Posted /\ UNCHANGED uiVars
  BY <1>2, <1>3, <1>4 DEF Block
<1>5. ASSUME NEW dec, Load(r, dec) PROVE Posted /\ UNCHANGED uiVars
  BY <1>1, <1>3, <1>5 DEF Load
<1>6. CASE OnBeforeResourceLoad(r)
  BY <1>4, <1>5, <1>6 DEF OnBeforeResourceLoad, Posted
<1>7. CASE OnResourceRedirect(r)
  BY <1>1, <1>3, <1>7 DEF OnResourceRedirect, Posted
<1>8. CASE OnResourceResponse(r)
  BY <1>1, <1>3, <1>8 DEF OnResourceResponse, Posted
<1>9. CASE OnResourceLoadComplete(r)
  BY <1>1, <1>3, <1>9 DEF OnResourceLoadComplete, Posted
<1> QED BY <1>6, <1>7, <1>8, <1>9 DEF Io

LEMMA PressKeepsUi ==
  ASSUME UiSafe, PressPanel
  PROVE  UiStep
<1>1. PICK x : tasks' = Append(tasks, x) /\ x.kind = "press"
  BY DEF PressPanel
<1>2. UNCHANGED <<trace, recorder, private, panel, log>>
  BY DEF PressPanel, Gesture, Others
<1>3. PICK ts2 : ts2 = tasks'
  OBVIOUS
<1>4. IsTasks(ts2) /\ (PressesOnly(ts2) => PressesOnly(tasks))
  BY <1>1, <1>3, TaskPosted DEF UiSafe
<1>5. RecordingKept(recorder, trace, recorder, trace)
  BY NothingRecorded DEF UiSafe
<1> QED BY <1>2, <1>3, <1>4, <1>5 DEF UiSafe, UiStep

LEMMA ToggleKeepsUi ==
  ASSUME UiSafe, Toggle
  PROVE  UiStep
<1>1. UNCHANGED <<tasks, trace, recorder, private, log>>
  BY DEF Toggle, Gesture, Others
<1>2. panel' = [panel EXCEPT !.visible = ~panel.visible, !.told = FALSE, !.view = EmptyTable]
  BY DEF Toggle, Turned
<1>3. IsPanel(panel') /\ ~panel'.told
  BY <1>2 DEF UiSafe, IsPanel
<1>4. RecordingKept(recorder, trace, recorder, trace)
  BY NothingRecorded DEF UiSafe
<1> QED BY <1>1, <1>3, <1>4 DEF UiSafe, UiStep, ViewSafe

LEMMA RecordingKeepsUi ==
  ASSUME UiSafe, ToggleLiveTraceRecording
  PROVE  UiStep
<1>1. UNCHANGED <<tasks, trace, private, panel, log>>
  BY DEF ToggleLiveTraceRecording, Gesture, Others
<1>2. PICK rec : rec = recorder'
  OBVIOUS
<1>3. RecorderSafe(rec, trace, private) /\ RecordingKept(recorder, trace, rec, trace)
  BY <1>2, RecordingToggled DEF UiSafe, ToggleLiveTraceRecording
<1> QED BY <1>1, <1>2, <1>3 DEF UiSafe, UiStep

LEMMA SwitchKeepsUi ==
  ASSUME UiSafe, SwitchProfile
  PROVE  UiStep
<1>1. UNCHANGED <<tasks, trace, log>>
  BY DEF SwitchProfile, Gesture, Others
<1>2. PICK rec, q, mode : rec = recorder' /\ q = panel' /\ mode = private'
  OBVIOUS
<1>3. mode = ~private /\ rec = SetPrivateMode(recorder, mode)
  BY <1>2 DEF SwitchProfile
<1>4. RecorderSafe(rec, trace, mode) /\ RecordingKept(recorder, trace, rec, trace)
  BY <1>3, SwitchRecorded DEF UiSafe
<1>5. q = IF panel.scoped
          THEN IF panel.visible THEN RefreshOf(panel, trace, log, ActiveIn(mode)) ELSE panel
          ELSE panel
  BY <1>2, RefreshedByLog DEF SwitchProfile, SessionTold, Told, ActiveIn
<1>6. IsPanel(panel) /\ mode \in BOOLEAN
  BY <1>3 DEF UiSafe
<1>7. CASE ViewSafe(panel, trace, log, private)
  <2>1. IsPanel(q) /\ ViewSafe(q, trace, log, mode)
    BY <1>5, <1>6, <1>7, PanelOfSession
  <2> QED BY <1>1, <1>2, <1>4, <1>6, <2>1 DEF UiSafe, UiStep
<1>8. CASE ~PressesOnly(tasks)
  <2>1. IsPanel(q)
    <3>1. CASE q = panel BY <1>6, <3>1
    <3>2. CASE panel.visible /\ q = RefreshOf(panel, trace, log, ActiveIn(mode))
      BY <1>6, <3>2, RebuiltTwice
    <3> QED BY <1>5, <3>1, <3>2
  <2> QED BY <1>1, <1>2, <1>4, <1>6, <1>8, <2>1 DEF UiSafe, UiStep
<1> QED BY <1>7, <1>8 DEF UiSafe

LEMMA UiInit == TraceInit => UiSafe
<1> SUFFICES ASSUME TraceInit PROVE UiSafe
  OBVIOUS
<1>1. IsTasks(tasks)
  <2>1. tasks = <<>>
    BY DEF TraceInit
  <2> QED BY <2>1 DEF IsTasks
<1>2. IsPanel(panel) /\ ~panel.visible
  BY DEF TraceInit, IsPanel
<1>3. RecorderSafe(recorder, trace, private)
  BY DEF TraceInit, RecorderSafe, Recorders, Lines, NewRecorder, Line, EmptyTrace
<1> QED BY <1>1, <1>2, <1>3 DEF UiSafe, TraceInit, ViewSafe

LEMMA UiNext == UiSafe /\ [TraceNext]_traceVars => UiStep
<1> SUFFICES ASSUME UiSafe, [TraceNext]_traceVars PROVE UiStep
  OBVIOUS
<1>r. RecordingKept(recorder, trace, recorder, trace)
  BY NothingRecorded DEF UiSafe
<1>1. ASSUME NEW r \in Requests, Begin(r) PROVE UiStep
  <2>1. UNCHANGED <<tasks, log, uiVars>>
    BY <1>1 DEF Begin
  <2> QED BY <1>r, <2>1 DEF UiSafe, UiStep, uiVars
<1>2. ASSUME NEW r \in Requests, Io(r) PROVE UiStep
  BY <1>2, IoPosts, PostKeepsUi DEF UiSafe
<1>3. CASE RunTask
  <2>1. tasks # <<>> /\ tasks' = Tail(tasks) /\ Others /\ UNCHANGED turns
    BY <1>3 DEF RunTask
  <2>2. CASE Head(tasks).kind = "deliver"
    BY <1>3, <2>1, <2>2, DeliverKeepsUi DEF RunTask
  <2>3. CASE Head(tasks).kind # "deliver"
    BY <1>3, <2>1, <2>3, HandleActionKeepsUi DEF RunTask
  <2> QED BY <2>2, <2>3
<1>4. CASE UNCHANGED traceVars
  BY <1>r, <1>4 DEF UiSafe, UiStep, traceVars
<1> QED BY <1>1, <1>2, <1>3, <1>4, PressKeepsUi, ToggleKeepsUi, RecordingKeepsUi, SwitchKeepsUi
       DEF TraceNext, Io

LEMMA UiStaysSafe == TraceSpec => []UiSafe
<1>1. UiSafe /\ [TraceNext]_traceVars => UiSafe'
  BY UiNext DEF UiStep
<1> QED BY <1>1, UiInit, PTL DEF TraceSpec

\* ViewIsCurrent: while no event is on its way, a panel that was told of something since it
\* was shown is the one it would build.
THEOREM ViewStaysCurrent == TraceSpec => []ViewIsCurrent
<1>1. UiSafe => ViewIsCurrent
  <2> SUFFICES ASSUME UiSafe, panel.visible, panel.told,
                      \A i \in DOMAIN tasks : tasks[i].kind = "press"
               PROVE  panel = Rebuilt(panel, trace, ActiveTab)
    BY DEF ViewIsCurrent
  <2>1. PressesOnly(tasks)
    <3>1. DOMAIN tasks = 1 .. Len(tasks)
      BY DEF UiSafe, IsTasks
    <3> QED BY <3>1 DEF PressesOnly
  <2>2. Rebuilt(panel, trace, ActiveTab) = ViewOf(panel, trace, log, ActiveIn(private))
    BY RefreshedByLog DEF ActiveTab, ActiveIn
  <2> QED BY <2>1, <2>2 DEF UiSafe, ViewSafe
<1> QED BY <1>1, UiStaysSafe, PTL

\* RecordingIsWhole: a recording misses no event of the trace and counts them at its end.
THEOREM RecordingsStayWhole == TraceSpec => RecordingIsWhole
<1> DEFINE Body ==
      LET last == recorder.last  line == recorder'.last
          written == recorder'.events = recorder.events + 1
      IN  /\ written => /\ recorder.recording /\ line.kind = "event"
                        /\ last.kind = "event"   => line.number = last.number + 1
                        /\ last.kind = "cleared" => line.number = 1
          /\ recorder.recording /\ ~recorder'.recording
               => line.kind = "end" /\ line.number = recorder.events
          /\ recorder.recording /\ recorder'.recording /\ trace'.next # trace.next
               => written \/ line.kind = "cleared"
<1>1. UiSafe /\ [TraceNext]_traceVars => [Body]_traceVars
  BY UiNext DEF UiStep, RecordingKept
<1>2. TraceSpec => [][Body]_traceVars
  BY <1>1, UiStaysSafe, PTL DEF TraceSpec
<1> QED BY <1>2 DEF RecordingIsWhole

-----------------------------------------------------------------------------
\* What the trace, the tasks and the log say of a request.

\* The events in the order they are or will be in the trace: those of the trace, and those
\* that wait, each at its place among the tasks.
EventsOf(evs, ts) ==
  [i \in {j \in 1 .. Len(evs) + Len(ts) : j <= Len(evs) \/ ts[j - Len(evs)].kind = "deliver"} |->
     IF i <= Len(evs) THEN evs[i] ELSE ts[i - Len(evs)].event]

Final(e) == e.kind \in {"Finished", "Failed"}
Refused == {"policy", "filter"}

\* Event e can be the last one of a request of fate f.
Fits(e, f) ==
  /\ e.url = f.url
  /\ f.end = "open" => ~Final(e)
  /\ f.end = "finished" => e.kind = "Finished"
  /\ f.end \in {"net"} \cup Refused => e.kind = "Failed" /\ e.error = f.end

\* The events of a request end with its fate: none follows the final one, only a redirect
\* changes the address, and the last one fits.
HistorySafe(ev, ft) ==
  /\ DOMAIN ev \in SUBSET Nat
  /\ \A i \in DOMAIN ev : /\ ev[i].id \in DOMAIN ft
                          /\ ft[ev[i].id].end = "open" => ~Final(ev[i])
                          /\ (\A j \in DOMAIN ev : i < j => ev[j].id # ev[i].id)
                               => Fits(ev[i], ft[ev[i].id])
  /\ \A i, j \in DOMAIN ev : i < j /\ ev[i].id = ev[j].id =>
       /\ ~Final(ev[i])
       /\ (\A k \in DOMAIN ev : i < k /\ k < j => ev[k].id # ev[i].id)
            => ev[j].kind = "Redirect" \/ ev[i].url = ev[j].url

\* Ids are given once, and that of a request under way is of its last address.
ClientsSafe(nt, cl, ft) ==
  /\ nt = [r \in Requests |-> [at |-> nt[r].at, url |-> nt[r].url, hops |-> nt[r].hops]]
  /\ cl = [t \in Tabs |-> [next |-> cl[t].next, ids |-> cl[t].ids]]
  /\ \A t \in Tabs : cl[t].next \in Nat
  /\ \A x \in DOMAIN ft : /\ x = <<x[1], x[2]>> /\ x[1] \in Tabs /\ x[2] \in Nat
                          /\ x[2] < cl[x[1]].next
                          /\ ft[x].end \in {"open", "finished", "net"} \cup Refused
  /\ \A t \in Tabs : \A r \in DOMAIN cl[t].ids :
       /\ r \in Requests /\ TabOfRequest[r] = t
       /\ cl[t].ids[r] \in DOMAIN ft /\ cl[t].ids[r][1] = t
       /\ ft[cl[t].ids[r]].end = "open" /\ ft[cl[t].ids[r]].url = nt[r].url
       /\ \A q \in DOMAIN cl[t].ids : cl[t].ids[q] = cl[t].ids[r] => q = r
  /\ \A r \in Requests :
       /\ nt[r].at \in {"loading", "answered"} => r \in DOMAIN cl[TabOfRequest[r]].ids
       /\ nt[r].at \in {"none", "over", "cancelled"} => r \notin DOMAIN cl[TabOfRequest[r]].ids

\* The newest decision about a request that was refused says so, and only that of one.
LogSafe(lg, ft) ==
  /\ \E T : lg \in Seq(T)
  /\ \A i \in 1 .. Len(lg) :
       /\ lg[i].id \in DOMAIN ft /\ lg[i].blocked \in BOOLEAN
       /\ lg[i].blocked => ft[lg[i].id].end \in Refused
       /\ ft[lg[i].id].end \in Refused /\ (\A j \in 1 .. Len(lg) : i < j => lg[j].id # lg[i].id)
            => lg[i].blocked
  /\ Len(lg) < LogCapacity =>
       \A x \in DOMAIN ft : ft[x].end \in Refused => \E i \in 1 .. Len(lg) : lg[i].id = x

IsEvents(evs) ==
  /\ \E T : evs \in Seq(T)
  /\ \A i \in 1 .. Len(evs) : IsEvent(evs[i])

RowsAgree(evs, ts, nt, cl, ft, lg) ==
  /\ IsEvents(evs) /\ HistorySafe(EventsOf(evs, ts), ft)
  /\ ClientsSafe(nt, cl, ft) /\ LogSafe(lg, ft)

\* The inductive invariant of the rows.
RowsSafe == RowsAgree(trace.events, tasks, net, clients, fate, log)

-----------------------------------------------------------------------------
\* Fates.

\* Fate ft becomes ft2: the request named x is at the given end, of the given address.
Became(ft, ft2, x, end, url) ==
  /\ DOMAIN ft2 = DOMAIN ft \cup {x}
  /\ \A y \in DOMAIN ft : y # x => ft2[y] = ft[y]
  /\ ft2[x].end = end /\ ft2[x].url = url

LEMMA WithBecomes ==
  ASSUME NEW ft, NEW ft2, NEW x, NEW end, NEW url,
         ft2 = With(ft, x, [end |-> end, url |-> url])
  PROVE  Became(ft, ft2, x, end, url)
BY DEF With, Became

\* A history goes on with an event of a new request or of one that is open.
LEMMA HistoryGrows ==
  ASSUME NEW ev, NEW ft, HistorySafe(ev, ft), NEW n \in Nat, \A i \in DOMAIN ev : i < n,
         NEW e, NEW ev2, DOMAIN ev2 = DOMAIN ev \cup {n}, ev2[n] = e,
         \A i \in DOMAIN ev : ev2[i] = ev[i],
         NEW ft2, NEW end, NEW url, Became(ft, ft2, e.id, end, url), Fits(e, ft2[e.id]),
         e.id \in DOMAIN ft =>
           ft[e.id].end = "open" /\ (e.kind = "Redirect" \/ e.url = ft[e.id].url)
  PROVE  HistorySafe(ev2, ft2)
<1>1. DOMAIN ev2 \in SUBSET Nat
  BY DEF HistorySafe
<1>2. ASSUME NEW i \in DOMAIN ev
      PROVE  /\ ev[i].id \in DOMAIN ft2
             /\ ft2[ev[i].id].end = "open" => ~Final(ev[i])
             /\ (\A j \in DOMAIN ev2 : i < j => ev2[j].id # ev[i].id)
                  => Fits(ev[i], ft2[ev[i].id])
  <2>1. /\ ev[i].id \in DOMAIN ft
        /\ ft[ev[i].id].end = "open" => ~Final(ev[i])
        /\ (\A j \in DOMAIN ev : i < j => ev[j].id # ev[i].id) => Fits(ev[i], ft[ev[i].id])
    BY DEF HistorySafe
  <2>2. CASE ev[i].id = e.id
    <3>1. ~Final(ev[i]) /\ ev[i].id \in DOMAIN ft2
      BY <2>1, <2>2 DEF Became
    <3>2. n \in DOMAIN ev2 /\ i < n /\ ev2[n].id = ev[i].id
      BY <2>2
    <3> QED BY <3>1, <3>2
  <2>3. CASE ev[i].id # e.id
    <3>1. ft2[ev[i].id] = ft[ev[i].id] /\ ev[i].id \in DOMAIN ft2
      BY <2>1, <2>3 DEF Became
    <3>2. ASSUME \A j \in DOMAIN ev2 : i < j => ev2[j].id # ev[i].id
          PROVE  \A j \in DOMAIN ev : i < j => ev[j].id # ev[i].id
      BY <3>2
    <3> QED BY <2>1, <3>1, <3>2
  <2> QED BY <2>2, <2>3
<1>3. /\ ev2[n].id \in DOMAIN ft2
      /\ ft2[ev2[n].id].end = "open" => ~Final(ev2[n])
      /\ Fits(ev2[n], ft2[ev2[n].id])
  BY DEF Became, Fits
<1>4. ASSUME NEW i \in DOMAIN ev, NEW j \in DOMAIN ev, i < j, ev[i].id = ev[j].id
      PROVE  /\ ~Final(ev[i])
             /\ (\A k \in DOMAIN ev2 : i < k /\ k < j => ev2[k].id # ev[i].id)
                  => ev[j].kind = "Redirect" \/ ev[i].url = ev[j].url
  <2>1. /\ ~Final(ev[i])
        /\ (\A k \in DOMAIN ev : i < k /\ k < j => ev[k].id # ev[i].id)
             => ev[j].kind = "Redirect" \/ ev[i].url = ev[j].url
    BY <1>4 DEF HistorySafe
  <2>2. ASSUME \A k \in DOMAIN ev2 : i < k /\ k < j => ev2[k].id # ev[i].id
        PROVE  \A k \in DOMAIN ev : i < k /\ k < j => ev[k].id # ev[i].id
    BY <2>2
  <2> QED BY <2>1, <2>2
<1>5. ASSUME NEW i \in DOMAIN ev, ev[i].id = e.id
      PROVE  /\ ~Final(ev[i])
             /\ (\A k \in DOMAIN ev2 : i < k /\ k < n => ev2[k].id # ev[i].id)
                  => e.kind = "Redirect" \/ ev[i].url = e.url
  <2>1. /\ e.id \in DOMAIN ft
        /\ ft[e.id].end = "open" => ~Final(ev[i])
        /\ (\A j \in DOMAIN ev : i < j => ev[j].id # e.id) => Fits(ev[i], ft[e.id])
    BY <1>5 DEF HistorySafe
  <2>2. ASSUME \A k \in DOMAIN ev2 : i < k /\ k < n => ev2[k].id # ev[i].id
        PROVE  \A j \in DOMAIN ev : i < j => ev[j].id # e.id
    BY <1>5, <2>2
  <2> QED BY <2>1, <2>2 DEF Fits
<1>6. \A i \in DOMAIN ev2 : i \in DOMAIN ev \/ i = n
  OBVIOUS
<1>7. \A j \in DOMAIN ev : ~(n < j)
  BY DEF HistorySafe
<1>8. ASSUME NEW i \in DOMAIN ev2
      PROVE  /\ ev2[i].id \in DOMAIN ft2
             /\ ft2[ev2[i].id].end = "open" => ~Final(ev2[i])
             /\ (\A j \in DOMAIN ev2 : i < j => ev2[j].id # ev2[i].id)
                  => Fits(ev2[i], ft2[ev2[i].id])
  BY <1>2, <1>3, <1>6
<1>9. ASSUME NEW i \in DOMAIN ev2, NEW j \in DOMAIN ev2, i < j, ev2[i].id = ev2[j].id
      PROVE  /\ ~Final(ev2[i])
             /\ (\A k \in DOMAIN ev2 : i < k /\ k < j => ev2[k].id # ev2[i].id)
                  => ev2[j].kind = "Redirect" \/ ev2[i].url = ev2[j].url
  <2>1. i \in DOMAIN ev /\ ev2[i] = ev[i]
    BY <1>6, <1>7, <1>9
  <2>2. CASE j \in DOMAIN ev
    <3>1. ev2[j] = ev[j]
      BY <2>2
    <3> QED BY <1>4, <1>9, <2>1, <2>2, <3>1
  <2>3. CASE j = n
    BY <1>5, <1>9, <2>1, <2>3
  <2> QED BY <1>6, <2>2, <2>3
<1> QED BY <1>1, <1>8, <1>9 DEF HistorySafe

\* The events of ev2 are the last ones of ev; g tells where an event was.
MovedUp(ev, ev2, g) ==
  /\ DOMAIN ev2 \in SUBSET Nat
  /\ \A i \in DOMAIN ev2 : /\ g[i] \in DOMAIN ev /\ ev2[i].id = ev[g[i]].id
                           /\ ev2[i].kind = ev[g[i]].kind /\ ev2[i].url = ev[g[i]].url
                           /\ ev2[i].error = ev[g[i]].error
  /\ \A i, j \in DOMAIN ev2 : i < j => g[i] < g[j]
  /\ \A i \in DOMAIN ev2 : \A k \in DOMAIN ev : g[i] < k => \E j \in DOMAIN ev2 : g[j] = k

\* A history stays one when its oldest events go and the others move up.
LEMMA HistoryCut ==
  ASSUME NEW ev, NEW ft, HistorySafe(ev, ft), NEW ev2, NEW g, MovedUp(ev, ev2, g)
  PROVE  HistorySafe(ev2, ft)
<1> USE DEF MovedUp
<1>1. DOMAIN ev \in SUBSET Nat /\ \A i \in DOMAIN ev2 : g[i] \in Nat /\ i \in Nat
  BY DEF HistorySafe
<1>2. \A i, j \in DOMAIN ev2 : g[i] < g[j] => i < j
  <2> SUFFICES ASSUME NEW i \in DOMAIN ev2, NEW j \in DOMAIN ev2, g[i] < g[j], ~(i < j)
               PROVE  FALSE
    OBVIOUS
  <2>1. i = j \/ j < i
    BY <1>1
  <2>2. i # j
    BY <1>1
  <2>3. g[j] < g[i]
    BY <2>1, <2>2
  <2> QED BY <1>1, <2>3
<1>3. \A i \in DOMAIN ev2 : (Final(ev2[i]) <=> Final(ev[g[i]]))
  BY DEF Final
<1>4. \A i \in DOMAIN ev2 : \A f : Fits(ev[g[i]], f) => Fits(ev2[i], f)
  BY <1>3 DEF Fits
<1>5. ASSUME NEW i \in DOMAIN ev2
      PROVE  /\ ev2[i].id \in DOMAIN ft
             /\ ft[ev2[i].id].end = "open" => ~Final(ev2[i])
             /\ (\A j \in DOMAIN ev2 : i < j => ev2[j].id # ev2[i].id)
                  => Fits(ev2[i], ft[ev2[i].id])
  <2>1. PICK m \in DOMAIN ev : m = g[i] /\ ev[m].id = ev2[i].id
    OBVIOUS
  <2>2. /\ ev[m].id \in DOMAIN ft
        /\ ft[ev[m].id].end = "open" => ~Final(ev[m])
        /\ (\A j \in DOMAIN ev : m < j => ev[j].id # ev[m].id) => Fits(ev[m], ft[ev[m].id])
    BY DEF HistorySafe
  <2>3. ASSUME \A j \in DOMAIN ev2 : i < j => ev2[j].id # ev2[i].id, NEW k \in DOMAIN ev, m < k
        PROVE  ev[k].id # ev[m].id
    <3>1. PICK j \in DOMAIN ev2 : g[j] = k
      BY <2>1, <2>3
    <3>2. i < j
      BY <1>2, <2>1, <2>3, <3>1
    <3> QED BY <2>1, <2>3, <3>1, <3>2
  <2> QED BY <1>3, <1>4, <2>1, <2>2, <2>3
<1>6. ASSUME NEW i \in DOMAIN ev2, NEW j \in DOMAIN ev2, i < j, ev2[i].id = ev2[j].id
      PROVE  /\ ~Final(ev2[i])
             /\ (\A k \in DOMAIN ev2 : i < k /\ k < j => ev2[k].id # ev2[i].id)
                  => ev2[j].kind = "Redirect" \/ ev2[i].url = ev2[j].url
  <2>1. PICK m \in DOMAIN ev, n \in DOMAIN ev : m = g[i] /\ n = g[j]
    OBVIOUS
  <2>2. m < n /\ ev[m].id = ev[n].id /\ ev[m].id = ev2[i].id
    BY <1>6, <2>1
  <2>3. /\ ~Final(ev[m])
        /\ (\A k \in DOMAIN ev : m < k /\ k < n => ev[k].id # ev[m].id)
             => ev[n].kind = "Redirect" \/ ev[m].url = ev[n].url
    BY <2>2 DEF HistorySafe
  <2>4. ASSUME \A k \in DOMAIN ev2 : i < k /\ k < j => ev2[k].id # ev2[i].id,
               NEW k \in DOMAIN ev, m < k, k < n
        PROVE  ev[k].id # ev[m].id
    <3>1. PICK h \in DOMAIN ev2 : g[h] = k
      BY <2>1, <2>4
    <3>2. i < h /\ h < j
      BY <1>2, <2>1, <2>4, <3>1
    <3> QED BY <2>2, <2>4, <3>1, <3>2
  <2>5. ev2[j].kind = ev[n].kind /\ ev2[i].url = ev[m].url /\ ev2[j].url = ev[n].url
    BY <2>1
  <2> QED BY <1>3, <2>1, <2>3, <2>4, <2>5
<1> QED BY <1>5, <1>6 DEF HistorySafe

-----------------------------------------------------------------------------
\* Where the events are.

\* w is s without its d oldest elements, which only a w of n elements lacks.
IsNewest(s, w, n, d) ==
  /\ Len(s) = Len(w) + d /\ (d > 0 => Len(w) = n)
  /\ \A i \in 1 .. Len(w) : w[i] = s[i + d]

LEMMA NewestProperties ==
  ASSUME NEW T, NEW s \in Seq(T), NEW n \in Nat, NEW w, w = Newest(s, n)
  PROVE  /\ w \in Seq(T) /\ Len(w) \in Nat /\ Len(w) <= n /\ Len(s) \in Nat
         /\ \E d \in Nat : IsNewest(s, w, n, d)
<1> USE DEF IsNewest
<1>1. Len(s) \in Nat
  OBVIOUS
<1>2. CASE Len(s) <= n
  <2>1. w = s
    BY <1>2 DEF Newest
  <2>2. Len(s) = Len(w) + 0 /\ \A i \in 1 .. Len(w) : w[i] = s[i + 0]
    BY <1>1, <2>1
  <2>3. 0 \in Nat /\ ~(0 > 0)
    OBVIOUS
  <2> QED BY <1>1, <1>2, <2>1, <2>2, <2>3
<1>3. CASE ~(Len(s) <= n)
  <2> DEFINE d == Len(s) - n
  <2>1. w = SubSeq(s, d + 1, Len(s))
    BY <1>1, <1>3 DEF Newest
  <2>2. d \in Nat /\ d > 0 /\ Len(s) = n + d /\ d + 1 \in 1 .. Len(s) + 1
    BY <1>1, <1>3
  <2>3. \A i \in d + 1 .. Len(s) : s[i] \in T
    BY <2>2
  <2>4. w = [i \in 1 .. n |-> s[i + d]]
    BY <1>1, <2>1, <2>2
  <2> HIDE DEF d
  <2>5. \A i \in 1 .. n : i + d \in 1 .. Len(s) /\ s[i + d] \in T
    BY <1>1, <2>2
  <2>6. w \in Seq(T) /\ Len(w) = n
    BY <2>4, <2>5
  <2>7. \A i \in 1 .. Len(w) : w[i] = s[i + d]
    BY <2>4, <2>6
  <2> QED BY <1>1, <2>2, <2>6, <2>7
<1> QED BY <1>1, <1>2, <1>3

\* The events of ev, and e after them at n.
GrownBy(ev, ev2, n, e) ==
  /\ DOMAIN ev2 = DOMAIN ev \cup {n} /\ ev2[n] = e
  /\ \A i \in DOMAIN ev : i < n /\ ev2[i] = ev[i]

\* An event that is posted comes after the others.
LEMMA EventPosted ==
  ASSUME NEW evs, IsEvents(evs), NEW ts, IsTasks(ts), NEW x, x.kind = "deliver", IsEvent(x.event),
         NEW ts2, ts2 = Append(ts, x), NEW ev, ev = EventsOf(evs, ts),
         NEW ev2, ev2 = EventsOf(evs, ts2)
  PROVE  \E n \in Nat : GrownBy(ev, ev2, n, x.event)
<1> DEFINE m == Len(evs)  l == Len(ts)
<1>1. m \in Nat
  BY DEF IsEvents
<1>2. l \in Nat /\ Len(ts2) = l + 1 /\ ts2[l + 1] = x /\ \A i \in 1 .. l : ts2[i] = ts[i]
  BY TaskPosted
<1> HIDE DEF m, l
<1> DEFINE D == {j \in 1 .. m + l : j <= m \/ ts[j - m].kind = "deliver"}
           D2 == {j \in 1 .. m + l + 1 : j <= m \/ ts2[j - m].kind = "deliver"}
           n == m + l + 1
<1>3. ev = [i \in D |-> IF i <= m THEN evs[i] ELSE ts[i - m].event]
  BY DEF EventsOf, m, l
<1>4. ev2 = [i \in D2 |-> IF i <= m THEN evs[i] ELSE ts2[i - m].event]
  <2>1. m + Len(ts2) = m + l + 1
    BY <1>1, <1>2
  <2> QED BY <2>1 DEF EventsOf, m
<1>5. n \in Nat /\ ~(n <= m) /\ n - m = l + 1
  BY <1>1, <1>2
<1>6. ASSUME NEW i \in 1 .. m + l, ~(i <= m) PROVE ts2[i - m] = ts[i - m]
  <2>1. i - m \in 1 .. l
    BY <1>1, <1>2, <1>6
  <2> QED BY <1>2, <2>1
<1>7. D2 = D \cup {n}
  <2>1. \A i \in 1 .. m + l + 1 : i \in 1 .. m + l \/ i = n
    BY <1>1, <1>2
  <2>2. \A i \in 1 .. m + l : i \in 1 .. m + l + 1 /\ i # n
    BY <1>1, <1>2
  <2>3. n \in 1 .. m + l + 1 /\ ts2[n - m].kind = "deliver"
    BY <1>1, <1>2, <1>5
  <2> HIDE DEF n
  <2> QED BY <1>6, <2>1, <2>2, <2>3
<1>8. \A i \in D : i < n /\ i \in 1 .. m + l
  BY <1>1, <1>2
<1>9. ev2[n] = x.event
  <2>1. ts2[n - m] = x
    BY <1>2, <1>5
  <2>2. n \in D2
    BY <1>7
  <2> HIDE DEF n, D2
  <2> QED BY <1>4, <1>5, <2>1, <2>2
<1>10. ASSUME NEW i \in D PROVE ev2[i] = ev[i]
  <2>1. i \in D2
    BY <1>7
  <2>2. ~(i <= m) => ts2[i - m] = ts[i - m]
    BY <1>6, <1>8
  <2>3. i \in D
    OBVIOUS
  <2> HIDE DEF D, D2
  <2>4. ev2[i] = IF i <= m THEN evs[i] ELSE ts2[i - m].event
    BY <1>4, <2>1
  <2>5. ev[i] = IF i <= m THEN evs[i] ELSE ts[i - m].event
    BY <1>3, <2>3
  <2> QED BY <2>2, <2>4, <2>5
<1> HIDE DEF n, D, D2
<1>11. DOMAIN ev = D /\ DOMAIN ev2 = D2
  BY <1>3, <1>4
<1> QED BY <1>5, <1>7, <1>8, <1>9, <1>10, <1>11 DEF GrownBy

\* A press that is posted is not an event.
LEMMA PressPosted ==
  ASSUME NEW evs, IsEvents(evs), NEW ts, IsTasks(ts), NEW x, x.kind = "press",
         NEW ts2, ts2 = Append(ts, x)
  PROVE  EventsOf(evs, ts2) = EventsOf(evs, ts)
<1> DEFINE m == Len(evs)  l == Len(ts)
<1>1. m \in Nat
  BY DEF IsEvents
<1>2. l \in Nat /\ Len(ts2) = l + 1 /\ ts2[l + 1] = x /\ \A i \in 1 .. l : ts2[i] = ts[i]
  BY TaskPosted
<1> HIDE DEF m, l
<1> DEFINE D == {j \in 1 .. m + l : j <= m \/ ts[j - m].kind = "deliver"}
           D2 == {j \in 1 .. m + l + 1 : j <= m \/ ts2[j - m].kind = "deliver"}
<1>3. EventsOf(evs, ts) = [i \in D |-> IF i <= m THEN evs[i] ELSE ts[i - m].event]
  BY DEF EventsOf, m, l
<1>4. EventsOf(evs, ts2) = [i \in D2 |-> IF i <= m THEN evs[i] ELSE ts2[i - m].event]
  <2>1. m + Len(ts2) = m + l + 1
    BY <1>1, <1>2
  <2> QED BY <2>1 DEF EventsOf, m
<1>5. ASSUME NEW i \in 1 .. m + l, ~(i <= m) PROVE ts2[i - m] = ts[i - m]
  <2>1. i - m \in 1 .. l
    BY <1>1, <1>2, <1>5
  <2> QED BY <1>2, <2>1
<1>6. D2 = D
  <2>1. \A i \in 1 .. m + l + 1 : i \in 1 .. m + l \/ (~(i <= m) /\ ts2[i - m] = x)
    BY <1>1, <1>2
  <2>2. \A i \in 1 .. m + l : i \in 1 .. m + l + 1
    BY <1>1, <1>2
  <2>3. ~(x.kind = "deliver")
    OBVIOUS
  <2> QED BY <1>5, <2>1, <2>2, <2>3
<1>7. \A i \in D : (IF i <= m THEN evs[i] ELSE ts2[i - m].event)
                   = (IF i <= m THEN evs[i] ELSE ts[i - m].event)
  <2>1. \A i \in D : i \in 1 .. m + l
    OBVIOUS
  <2> QED BY <1>5, <2>1
<1> HIDE DEF D, D2
<1> QED BY <1>3, <1>4, <1>6, <1>7

\* Task x is taken: d events leave the trace and the one x delivers joins it.
TakenTo(evs, evs2, d, x) ==
  /\ d <= Len(evs) /\ \A i \in 1 .. Len(evs) - d : evs2[i] = evs[i + d]
  /\ \/ x.kind # "deliver" /\ Len(evs2) = Len(evs) - d
     \/ /\ x.kind = "deliver" /\ Len(evs2) = Len(evs) - d + 1
        /\ evs2[Len(evs2)].id = x.event.id /\ evs2[Len(evs2)].kind = x.event.kind
        /\ evs2[Len(evs2)].url = x.event.url /\ evs2[Len(evs2)].error = x.event.error

\* Taking the head of the tasks keeps a history: an event goes to the trace, which may lose
\* its oldest ones, and a press clears the trace or leaves it.
LEMMA TraceMoves ==
  ASSUME NEW evs, IsEvents(evs), NEW ts, IsTasks(ts), ts # <<>>, NEW ft,
         HistorySafe(EventsOf(evs, ts), ft), NEW d \in Nat, NEW evs2, IsEvents(evs2),
         NEW ts2, ts2 = Tail(ts), TakenTo(evs, evs2, d, ts[1])
  PROVE  HistorySafe(EventsOf(evs2, ts2), ft)
<1> DEFINE m == Len(evs)  l == Len(ts)  m2 == Len(evs2)
<1>1. m \in Nat /\ m2 \in Nat
  BY DEF IsEvents
<1>2. l \in Nat \ {0} /\ Len(ts2) = l - 1 /\ \A i \in 1 .. l - 1 : ts2[i] = ts[i + 1]
  BY TaskTaken
<1>3. \/ ts[1].kind # "deliver" /\ m2 = m - d
      \/ /\ ts[1].kind = "deliver" /\ m2 = m - d + 1
         /\ evs2[m2].id = ts[1].event.id /\ evs2[m2].kind = ts[1].event.kind
         /\ evs2[m2].url = ts[1].event.url /\ evs2[m2].error = ts[1].event.error
  BY DEF TakenTo
<1>4. d <= m /\ \A i \in 1 .. m - d : evs2[i] = evs[i + d]
  BY DEF TakenTo
<1> DEFINE D == {j \in 1 .. m + l : j <= m \/ ts[j - m].kind = "deliver"}
           D2 == {j \in 1 .. m2 + (l - 1) : j <= m2 \/ ts2[j - m2].kind = "deliver"}
           ev == [i \in D |-> IF i <= m THEN evs[i] ELSE ts[i - m].event]
           ev2 == [i \in D2 |-> IF i <= m2 THEN evs2[i] ELSE ts2[i - m2].event]
           e == m - d
           g == [i \in D2 |-> IF i <= e THEN i + d ELSE IF m2 = e THEN i + d + 1 ELSE i + d]
<1>5. EventsOf(evs, ts) = ev
  BY DEF EventsOf
<1>6. EventsOf(evs2, ts2) = ev2
  <2>1. m2 + Len(ts2) = m2 + (l - 1)
    BY <1>2
  <2> QED BY <2>1 DEF EventsOf
<1> HIDE DEF m, l, m2
<1>7. HistorySafe(ev, ft)
  BY <1>5
<1>8. e \in Nat /\ m = e + d
  BY <1>1, <1>4
<1>a. ev = [i \in D |-> IF i <= m THEN evs[i] ELSE ts[i - m].event]
      /\ ev2 = [i \in D2 |-> IF i <= m2 THEN evs2[i] ELSE ts2[i - m2].event]
      /\ g = [i \in D2 |-> IF i <= e THEN i + d ELSE IF m2 = e THEN i + d + 1 ELSE i + d]
  OBVIOUS
<1>b. /\ \A j : j \in D <=> j \in 1 .. m + l /\ (j <= m \/ ts[j - m].kind = "deliver")
      /\ \A j : j \in D2 <=> j \in 1 .. m2 + (l - 1) /\ (j <= m2 \/ ts2[j - m2].kind = "deliver")
  OBVIOUS
<1>c. \A i \in 1 .. e : evs2[i] = evs[i + d]
  BY <1>4
<1>d. \/ ts[1].kind # "deliver" /\ m2 = e
      \/ /\ ts[1].kind = "deliver" /\ m2 = e + 1
         /\ evs2[m2].id = ts[1].event.id /\ evs2[m2].kind = ts[1].event.kind
         /\ evs2[m2].url = ts[1].event.url /\ evs2[m2].error = ts[1].event.error
  BY <1>3
<1> HIDE DEF D, D2, ev, ev2, g, e
<1>9. DOMAIN ev = D /\ DOMAIN ev2 = D2
  BY <1>a
<1>10. D2 \in SUBSET Nat
  <2>1. 1 .. m2 + (l - 1) \in SUBSET Nat
    BY <1>1, <1>2
  <2> QED BY <1>b, <2>1
<1> DEFINE Same(a, b) == a.id = b.id /\ a.kind = b.kind /\ a.url = b.url /\ a.error = b.error
<1>11. ASSUME NEW i \in D2
       PROVE  /\ g[i] \in D /\ Same(ev2[i], ev[g[i]])
              /\ (i <= e /\ g[i] = i + d) \/ (~(i <= e) /\ g[i] = i + (m - m2) + 1)
  <2>0. i \in 1 .. m2 + (l - 1) /\ i \in Nat
    BY <1>10, <1>b
  <2>1. CASE i <= e
    <3>1. g[i] = i + d /\ i + d <= m /\ i + d \in 1 .. m + l /\ i <= m2 /\ i \in 1 .. e
      BY <1>1, <1>2, <1>8, <1>a, <1>d, <2>0, <2>1
    <3>2. g[i] \in D
      BY <1>b, <3>1
    <3>3. ev2[i] = evs2[i] /\ ev[g[i]] = evs[i + d]
      BY <1>a, <3>1, <3>2
    <3> QED BY <1>c, <2>1, <3>1, <3>2, <3>3
  <2>2. CASE ~(i <= e) /\ i <= m2
    <3>1. m2 = e + 1 /\ i = m2 /\ ts[1].kind = "deliver"
      BY <1>8, <1>d, <2>0, <2>2
    <3>2. g[i] = i + d /\ i + d = m + 1 /\ i + d = i + (m - m2) + 1 /\ ~(m + 1 <= m) /\ (m + 1) - m = 1
          /\ m + 1 \in 1 .. m + l
      BY <1>1, <1>2, <1>8, <1>a, <2>0, <2>2, <3>1
    <3>3. g[i] \in D
      BY <1>b, <3>1, <3>2
    <3>4. ev2[i] = evs2[m2] /\ ev[g[i]] = ts[1].event
      BY <1>a, <2>2, <3>1, <3>2, <3>3
    <3> QED BY <1>d, <2>2, <3>1, <3>2, <3>3, <3>4
  <2>3. CASE ~(i <= m2)
    <3>1. ~(i <= e)
      BY <1>8, <1>d, <2>0, <2>3
    <3> DEFINE j == i + (m - m2) + 1
    <3>2. g[i] = j
      BY <1>1, <1>8, <1>a, <1>d, <2>0, <3>1
    <3>3. ~(j <= m) /\ j - m = (i - m2) + 1 /\ j \in 1 .. m + l /\ i - m2 \in 1 .. l - 1
      BY <1>1, <1>2, <2>0, <2>3
    <3>4. ts2[i - m2] = ts[j - m]
      BY <1>2, <3>3
    <3> HIDE DEF j
    <3>5. j \in D
      BY <1>b, <2>3, <3>3, <3>4
    <3>6. ev2[i] = ts2[i - m2].event /\ ev[j] = ts[j - m].event
      BY <1>a, <2>3, <3>3, <3>5
    <3>7. g[i] = i + (m - m2) + 1
      BY <3>2 DEF j
    <3> QED BY <3>1, <3>2, <3>4, <3>5, <3>6, <3>7
  <2> QED BY <2>1, <2>2, <2>3
<1>12. ASSUME NEW i \in D2, NEW j \in D2, i < j PROVE g[i] < g[j]
  <2>1. i \in Nat /\ j \in Nat
    BY <1>10
  <2>2. (i <= e /\ g[i] = i + d) \/ (~(i <= e) /\ g[i] = i + (m - m2) + 1)
    BY <1>11
  <2>3. (j <= e /\ g[j] = j + d) \/ (~(j <= e) /\ g[j] = j + (m - m2) + 1)
    BY <1>11
  <2>4. m2 = e \/ m2 = e + 1
    BY <1>d
  <2>5. PICK c : c = (m - m2) + 1
    OBVIOUS
  <2>6. c = d \/ c = d + 1
    BY <1>1, <1>8, <2>4, <2>5
  <2>7. (i <= e /\ g[i] = i + d) \/ (~(i <= e) /\ g[i] = i + c)
    BY <1>1, <2>1, <2>2, <2>5
  <2>8. (j <= e /\ g[j] = j + d) \/ (~(j <= e) /\ g[j] = j + c)
    BY <1>1, <2>1, <2>3, <2>5
  <2> QED BY <1>8, <1>12, <2>1, <2>6, <2>7, <2>8
<1>13. ASSUME NEW i \in D2, NEW k \in D, g[i] < k PROVE \E j \in D2 : g[j] = k
  <2>0. k \in 1 .. m + l /\ (k <= m \/ ts[k - m].kind = "deliver") /\ i \in Nat /\ i >= 1
    <3>1. i \in 1 .. m2 + (l - 1)
      BY <1>b
    <3> QED BY <1>1, <1>2, <1>10, <1>b, <3>1
  <2>1. (i <= e /\ g[i] = i + d) \/ (~(i <= e) /\ g[i] = i + (m - m2) + 1)
    BY <1>11
  <2>2. CASE k <= m
    <3> DEFINE j == k - d
    <3>1. k > d
      BY <1>1, <1>8, <1>d, <1>13, <2>0, <2>1, <2>2
    <3>2. j \in 1 .. m2 + (l - 1) /\ j <= e /\ j <= m2 /\ j + d = k
      BY <1>1, <1>2, <1>8, <1>d, <2>0, <2>2, <3>1
    <3> HIDE DEF j
    <3>3. j \in D2
      BY <1>b, <3>2
    <3>4. g[j] = k
      BY <1>a, <3>2, <3>3
    <3> QED BY <3>3, <3>4
  <2>3. CASE ~(k <= m) /\ k = m + 1
    <3>1. k - m = 1
      BY <1>1, <2>3
    <3>2. ts[1].kind = "deliver"
      BY <2>0, <2>3, <3>1
    <3>3. m2 = e + 1
      BY <1>d, <3>2
    <3>4. m2 \in 1 .. m2 + (l - 1) /\ m2 <= m2 /\ ~(m2 <= e) /\ ~(m2 = e) /\ m2 + d = k
      BY <1>1, <1>2, <1>8, <2>3, <3>3
    <3>5. m2 \in D2
      BY <1>b, <3>4
    <3>6. g[m2] = k
      BY <1>a, <3>4, <3>5
    <3> QED BY <3>5, <3>6
  <2>4. CASE ~(k <= m) /\ k # m + 1
    <3> DEFINE j == k - (m - m2) - 1
    <3>1. j \in 1 .. m2 + (l - 1) /\ ~(j <= m2) /\ j - m2 = k - m - 1 /\ j - m2 \in 1 .. l - 1
          /\ ~(j <= e) /\ (m2 = e => j + d + 1 = k) /\ (m2 = e + 1 => j + d = k)
      BY <1>1, <1>2, <1>8, <1>d, <2>0, <2>4
    <3>2. k - m = (j - m2) + 1
      BY <1>1, <2>0
    <3> HIDE DEF j
    <3>3. ts2[j - m2] = ts[k - m]
      BY <1>2, <3>1, <3>2
    <3>4. j \in D2
      BY <1>b, <2>0, <2>4, <3>1, <3>3
    <3>5. g[j] = k
      <4>1. CASE m2 = e BY <1>a, <3>1, <3>4, <4>1
      <4>2. CASE m2 = e + 1
        <5>1. ~(m2 = e) BY <1>8, <4>2
        <5> QED BY <1>a, <3>1, <3>4, <4>2, <5>1
      <4> QED BY <1>d, <4>1, <4>2
    <3> QED BY <3>4, <3>5
  <2> QED BY <2>2, <2>3, <2>4
<1>14. HistorySafe(ev2, ft)
  <2>1. \A i \in DOMAIN ev2 :
          /\ g[i] \in DOMAIN ev /\ ev2[i].id = ev[g[i]].id
          /\ ev2[i].kind = ev[g[i]].kind /\ ev2[i].url = ev[g[i]].url
          /\ ev2[i].error = ev[g[i]].error
    BY <1>9, <1>11
  <2>2. \A i, j \in DOMAIN ev2 : i < j => g[i] < g[j]
    BY <1>9, <1>12
  <2>3. \A i \in DOMAIN ev2 : \A k \in DOMAIN ev : g[i] < k => \E j \in DOMAIN ev2 : g[j] = k
    BY <1>9, <1>13
  <2>4. DOMAIN ev2 \in SUBSET Nat
    BY <1>9, <1>10
  <2>5. MovedUp(ev, ev2, g)
    BY <2>1, <2>2, <2>3, <2>4 DEF MovedUp
  <2> QED BY <1>7, <2>5, HistoryCut
<1> QED BY <1>6, <1>14

-----------------------------------------------------------------------------
\* The ids of requests.

IdOf(cl, r) ==
  LET c == cl[TabOfRequest[r]] IN
  IF r \in DOMAIN c.ids THEN c.ids[r] ELSE <<TabOfRequest[r], c.next>>

RememberedBy(cl, r) ==
  [cl EXCEPT ![TabOfRequest[r]] =
     IF r \in DOMAIN @.ids THEN @
     ELSE [next |-> @.next + 1, ids |-> With(@.ids, r, <<TabOfRequest[r], @.next>>)]]

\* The id a handler names is new, or that of its request, which is under way.
LEMMA IdsDiffer ==
  ASSUME NEW nt, NEW cl, NEW ft, ClientsSafe(nt, cl, ft), NEW t \in Tabs,
         NEW r \in DOMAIN cl[t].ids, NEW q \in DOMAIN cl[t].ids, cl[t].ids[q] = cl[t].ids[r]
  PROVE  q = r
BY DEF ClientsSafe

LEMMA OwnIds ==
  ASSUME NEW nt, NEW cl, NEW ft, ClientsSafe(nt, cl, ft), NEW t \in Tabs,
         NEW r \in DOMAIN cl[t].ids, NEW y, y = cl[t].ids[r]
  PROVE  /\ r \in Requests /\ TabOfRequest[r] = t /\ y \in DOMAIN ft /\ y[1] = t
         /\ ft[y].end = "open" /\ ft[y].url = nt[r].url
BY SMTT(40), ZenonT(20) DEF ClientsSafe

LEMMA IdProperties ==
  ASSUME NEW nt, NEW cl, NEW ft, ClientsSafe(nt, cl, ft), NEW r \in Requests, NEW x,
         x = IdOf(cl, r)
  PROVE  /\ x = <<x[1], x[2]>> /\ x[1] = TabOfRequest[r] /\ x[2] \in Nat
         /\ TabOfRequest[r] \in Tabs
         /\ x \in DOMAIN ft <=> r \in DOMAIN cl[TabOfRequest[r]].ids
         /\ x \in DOMAIN ft => ft[x].end = "open" /\ ft[x].url = nt[r].url
         /\ x \notin DOMAIN ft => x[2] = cl[x[1]].next
         /\ x \in DOMAIN ft => x[2] < cl[x[1]].next
<1> DEFINE t == TabOfRequest[r]
<1>1. t \in Tabs
  BY TabOfRequestAssumption
<1>2. CASE r \in DOMAIN cl[t].ids
  <2>1. x = cl[t].ids[r]
    BY <1>2 DEF IdOf
  <2> HIDE DEF t
  <2>a. /\ cl[t].ids[r] \in DOMAIN ft /\ cl[t].ids[r][1] = t
        /\ ft[cl[t].ids[r]].end = "open" /\ ft[cl[t].ids[r]].url = nt[r].url
    BY <1>1, <1>2 DEF ClientsSafe
  <2>2. x \in DOMAIN ft /\ x[1] = t /\ ft[x].end = "open" /\ ft[x].url = nt[r].url
    BY <2>1, <2>a
  <2>3. x = <<x[1], x[2]>> /\ x[2] \in Nat /\ x[2] < cl[x[1]].next
    BY <2>2 DEF ClientsSafe
  <2> QED BY <1>1, <1>2, <2>2, <2>3 DEF t
<1>3. CASE r \notin DOMAIN cl[t].ids
  <2>1. x = <<t, cl[t].next>>
    BY <1>3 DEF IdOf
  <2>2. x[1] = t /\ x[2] = cl[t].next /\ x[2] \in Nat
    BY <1>1, <2>1 DEF ClientsSafe
  <2>3. x \notin DOMAIN ft
    <3>1. ~(x[2] < cl[x[1]].next)
      BY <2>2
    <3> QED BY <3>1 DEF ClientsSafe
  <2> QED BY <1>1, <1>3, <2>1, <2>2, <2>3
<1> QED BY <1>2, <1>3

\* Client t has given request r the name x, and nothing else has changed.
NamedBy(cl, cl2, t, r, x) ==
  /\ cl2 = [s \in Tabs |-> [next |-> cl2[s].next, ids |-> cl2[s].ids]]
  /\ \A s \in Tabs : s # t => cl2[s] = cl[s]
  /\ cl2[t].next \in Nat /\ cl[t].next <= cl2[t].next /\ x[2] < cl2[t].next
  /\ DOMAIN cl2[t].ids = DOMAIN cl[t].ids \cup {r} /\ cl2[t].ids[r] = x
  /\ \A q \in DOMAIN cl[t].ids : q # r => cl2[t].ids[q] = cl[t].ids[q]

LEMMA RememberedClient ==
  ASSUME NEW nt, NEW cl, NEW ft, ClientsSafe(nt, cl, ft), NEW r \in Requests, NEW x,
         x = IdOf(cl, r), NEW cl2, cl2 = RememberedBy(cl, r), NEW t, t = TabOfRequest[r]
  PROVE  NamedBy(cl, cl2, t, r, x)
<1> USE DEF NamedBy
<1>1. t \in Tabs /\ cl[t].next \in Nat
      /\ cl = [s \in Tabs |-> [next |-> cl[s].next, ids |-> cl[s].ids]]
  BY TabOfRequestAssumption DEF ClientsSafe
<1>2. CASE r \in DOMAIN cl[t].ids
  <2>1. cl2 = cl
    BY <1>1, <1>2 DEF RememberedBy
  <2>2. x = cl[t].ids[r]
    BY <1>2 DEF IdOf
  <2>3. x[2] < cl[t].next
    BY <1>2, IdProperties
  <2>4. DOMAIN cl[t].ids = DOMAIN cl[t].ids \cup {r}
    BY <1>2
  <2>5. cl[t].next <= cl[t].next
    BY <1>1
  <2> QED BY <1>1, <2>1, <2>2, <2>3, <2>4, <2>5
<1>3. CASE r \notin DOMAIN cl[t].ids
  <2> DEFINE c == [next |-> cl[t].next + 1, ids |-> With(cl[t].ids, r, x)]
  <2>1. x = <<t, cl[t].next>> /\ x[2] = cl[t].next
    BY <1>1, <1>3 DEF IdOf
  <2>2. cl2 = [cl EXCEPT ![t] = c]
    BY <1>3, <2>1 DEF RememberedBy
  <2>3. c.next = cl[t].next + 1 /\ c.ids = With(cl[t].ids, r, x)
        /\ c = [next |-> c.next, ids |-> c.ids]
    OBVIOUS
  <2> HIDE DEF c
  <2>4. cl2[t] = c /\ \A s \in Tabs : s # t => cl2[s] = cl[s]
    BY <1>1, <2>2
  <2>5. cl2 = [s \in Tabs |-> [next |-> cl2[s].next, ids |-> cl2[s].ids]]
    <3>1. cl2 = [s \in Tabs |-> IF s = t THEN c ELSE cl[s]]
      BY <1>1, <2>2
    <3>2. \A s \in Tabs : cl2[s] = [next |-> cl2[s].next, ids |-> cl2[s].ids]
      BY <1>1, <2>3, <2>4
    <3> QED BY <3>1, <3>2
  <2>6. DOMAIN c.ids = DOMAIN cl[t].ids \cup {r} /\ c.ids[r] = x
        /\ \A q \in DOMAIN cl[t].ids : q # r => c.ids[q] = cl[t].ids[q]
    BY <2>3 DEF With
  <2>7. cl2[t].next \in Nat /\ cl[t].next <= cl2[t].next /\ x[2] < cl2[t].next
    <3>1. PICK m \in Nat : m = cl[t].next
      BY <1>1
    <3>2. x[2] = m /\ cl2[t].next = m + 1
      BY <2>1, <2>3, <2>4, <3>1
    <3> QED BY <3>1, <3>2
  <2> QED BY <2>4, <2>5, <2>6, <2>7
<1> QED BY <1>2, <1>3

\* What a handler that leaves the request under way does to net, clients and fate.
Goes(nt, nt2, cl, cl2, ft, ft2, r, url) ==
  /\ nt2 = [q \in Requests |-> [at |-> nt2[q].at, url |-> nt2[q].url, hops |-> nt2[q].hops]]
  /\ \A q \in Requests : q # r => nt2[q] = nt[q]
  /\ nt2[r].at \in {"loading", "answered", "starting"} /\ nt2[r].url = url
  /\ cl2 = RememberedBy(cl, r)
  /\ Became(ft, ft2, IdOf(cl, r), "open", url)

\* And one that ends it.
Over(nt, nt2, cl, cl2, ft, ft2, r, end, url) ==
  /\ nt2 = [q \in Requests |-> [at |-> nt2[q].at, url |-> nt2[q].url, hops |-> nt2[q].hops]]
  /\ \A q \in Requests : q # r => nt2[q] = nt[q]
  /\ nt2[r].at \in {"over", "cancelled"}
  /\ cl2 = [RememberedBy(cl, r) EXCEPT ![TabOfRequest[r]].ids = [q \in DOMAIN @ \ {r} |-> @[q]]]
  /\ end \in {"finished", "net"} \cup Refused
  /\ Became(ft, ft2, IdOf(cl, r), end, url)

LEMMA GoingClients ==
  ASSUME NEW nt, NEW cl, NEW ft, ClientsSafe(nt, cl, ft), NEW r \in Requests, NEW nt2, NEW cl2,
         NEW ft2, NEW url, Goes(nt, nt2, cl, cl2, ft, ft2, r, url)
  PROVE  ClientsSafe(nt2, cl2, ft2)
<1>1. PICK x, t : x = IdOf(cl, r) /\ t = TabOfRequest[r]
  OBVIOUS
<1>2. /\ x = <<x[1], x[2]>> /\ x[1] = t /\ x[2] \in Nat /\ t \in Tabs
      /\ x \in DOMAIN ft <=> r \in DOMAIN cl[t].ids
  BY <1>1, IdProperties
<1>n. NamedBy(cl, cl2, t, r, x)
  <2>1. cl2 = RememberedBy(cl, r)
    BY DEF Goes
  <2> QED BY <1>1, <2>1, RememberedClient
<1>3. /\ cl2 = [s \in Tabs |-> [next |-> cl2[s].next, ids |-> cl2[s].ids]]
      /\ \A s \in Tabs : s # t => cl2[s] = cl[s]
      /\ cl2[t].next \in Nat /\ cl[t].next <= cl2[t].next /\ x[2] < cl2[t].next
      /\ DOMAIN cl2[t].ids = DOMAIN cl[t].ids \cup {r} /\ cl2[t].ids[r] = x
      /\ \A q \in DOMAIN cl[t].ids : q # r => cl2[t].ids[q] = cl[t].ids[q]
  BY <1>n DEF NamedBy
<1>4. /\ nt2 = [q \in Requests |-> [at |-> nt2[q].at, url |-> nt2[q].url, hops |-> nt2[q].hops]]
      /\ \A q \in Requests : q # r => nt2[q] = nt[q]
      /\ nt2[r].at \in {"loading", "answered", "starting"} /\ nt2[r].url = url
      /\ DOMAIN ft2 = DOMAIN ft \cup {x} /\ ft2[x].end = "open" /\ ft2[x].url = url
      /\ \A y \in DOMAIN ft : y # x => ft2[y] = ft[y]
  BY <1>1 DEF Goes, Became
<1>5. \A s \in Tabs : cl[s].next \in Nat /\ cl2[s].next \in Nat /\ cl[s].next <= cl2[s].next
  <2>1. \A s \in Tabs : cl[s].next \in Nat
    BY DEF ClientsSafe
  <2> QED BY <1>3, <2>1, SMTT(40), ZenonT(20)
<1>6. ASSUME NEW y \in DOMAIN ft2
      PROVE  /\ y = <<y[1], y[2]>> /\ y[1] \in Tabs /\ y[2] \in Nat /\ y[2] < cl2[y[1]].next
             /\ ft2[y].end \in {"open", "finished", "net"} \cup Refused
  <2>1. CASE y = x
    BY <1>2, <1>3, <1>4, <2>1
  <2>2. CASE y # x
    <3>1. y \in DOMAIN ft /\ ft2[y] = ft[y]
      BY <1>4, <2>2
    <3>2. y = <<y[1], y[2]>> /\ y[1] \in Tabs /\ y[2] \in Nat /\ y[2] < cl[y[1]].next
          /\ ft[y].end \in {"open", "finished", "net"} \cup Refused
      BY <3>1 DEF ClientsSafe
    <3>3. y[2] < cl2[y[1]].next
      BY <1>5, <3>2
    <3> QED BY <3>1, <3>2, <3>3
  <2> QED BY <2>1, <2>2
<1>7. ASSUME NEW s \in Tabs, NEW q \in DOMAIN cl[s].ids, q # r
      PROVE  /\ q \in Requests /\ TabOfRequest[q] = s
             /\ cl[s].ids[q] \in DOMAIN ft2 /\ cl[s].ids[q][1] = s /\ cl[s].ids[q] # x
             /\ ft2[cl[s].ids[q]].end = "open" /\ ft2[cl[s].ids[q]].url = nt2[q].url
  <2>1. PICK y : y = cl[s].ids[q]
    OBVIOUS
  <2>2. /\ q \in Requests /\ TabOfRequest[q] = s /\ y \in DOMAIN ft /\ y[1] = s
        /\ ft[y].end = "open" /\ ft[y].url = nt[q].url
    BY <2>1, OwnIds
  <2>3. y # x
    <3> SUFFICES ASSUME y = x PROVE FALSE
      OBVIOUS
    <3>1. s = t /\ r \in DOMAIN cl[t].ids
      BY <1>2, <2>2
    <3>2. cl[t].ids[r] = x
      BY <1>1, <3>1 DEF IdOf
    <3>3. q \in DOMAIN cl[t].ids /\ cl[t].ids[q] = cl[t].ids[r]
      BY <2>1, <3>1, <3>2
    <3>5. q = r
      BY <1>2, <3>1, <3>3, IdsDiffer
    <3> QED BY <1>7, <3>5
  <2> QED BY <1>4, <1>7, <2>1, <2>2, <2>3
<1>8. ASSUME NEW s \in Tabs, NEW q \in DOMAIN cl2[s].ids
      PROVE  \/ q = r /\ s = t /\ cl2[s].ids[q] = x
             \/ q # r /\ q \in DOMAIN cl[s].ids /\ cl2[s].ids[q] = cl[s].ids[q]
  <2>1. CASE s = t
    BY <1>3, <2>1
  <2>2. CASE s # t
    <3>1. q \in DOMAIN cl[s].ids /\ cl2[s].ids[q] = cl[s].ids[q]
      BY <1>3, <2>2
    <3>2. TabOfRequest[q] = s
      BY <3>1 DEF ClientsSafe
    <3> QED BY <1>1, <2>2, <3>1, <3>2
  <2> QED BY <2>1, <2>2
<1>9. ASSUME NEW s \in Tabs, NEW q \in DOMAIN cl2[s].ids
      PROVE  /\ q \in Requests /\ TabOfRequest[q] = s
             /\ cl2[s].ids[q] \in DOMAIN ft2 /\ cl2[s].ids[q][1] = s
             /\ ft2[cl2[s].ids[q]].end = "open" /\ ft2[cl2[s].ids[q]].url = nt2[q].url
             /\ \A p \in DOMAIN cl2[s].ids : cl2[s].ids[p] = cl2[s].ids[q] => p = q
  <2>1. /\ q \in Requests /\ TabOfRequest[q] = s
        /\ cl2[s].ids[q] \in DOMAIN ft2 /\ cl2[s].ids[q][1] = s
        /\ ft2[cl2[s].ids[q]].end = "open" /\ ft2[cl2[s].ids[q]].url = nt2[q].url
    <3>1. CASE q = r /\ s = t /\ cl2[s].ids[q] = x
      BY <1>1, <1>2, <1>4, <3>1
    <3>2. CASE q # r /\ q \in DOMAIN cl[s].ids /\ cl2[s].ids[q] = cl[s].ids[q]
      BY <1>7, <3>2
    <3> QED BY <1>8, <3>1, <3>2
  <2>2. ASSUME NEW p \in DOMAIN cl2[s].ids, cl2[s].ids[p] = cl2[s].ids[q] PROVE p = q
    <3>1. CASE p # r /\ q # r
      <4>1. /\ p \in DOMAIN cl[s].ids /\ q \in DOMAIN cl[s].ids /\ cl[s].ids[p] = cl[s].ids[q]
        BY <1>8, <2>2, <3>1
      <4> QED BY <4>1 DEF ClientsSafe
    <3>2. CASE p = r /\ q # r
      <4>1. cl2[s].ids[p] = x /\ q \in DOMAIN cl[s].ids /\ cl2[s].ids[q] = cl[s].ids[q]
        BY <1>8, <3>2
      <4> QED BY <1>7, <2>2, <3>2, <4>1
    <3>3. CASE p # r /\ q = r
      <4>1. cl2[s].ids[q] = x /\ p \in DOMAIN cl[s].ids /\ cl2[s].ids[p] = cl[s].ids[p]
        BY <1>8, <3>3
      <4> QED BY <1>7, <2>2, <3>3, <4>1
    <3> QED BY <3>1, <3>2, <3>3
  <2> QED BY <2>1, <2>2
<1>10. ASSUME NEW q \in Requests
       PROVE  /\ nt2[q].at \in {"loading", "answered"} => q \in DOMAIN cl2[TabOfRequest[q]].ids
              /\ nt2[q].at \in {"none", "over", "cancelled"} =>
                   q \notin DOMAIN cl2[TabOfRequest[q]].ids
  <2>1. CASE q = r
    BY <1>1, <1>3, <1>4, <2>1
  <2>2. CASE q # r
    <3>1. PICK s : s = TabOfRequest[q]
      OBVIOUS
    <3>2. nt2[q] = nt[q] /\ s \in Tabs
      BY <1>4, <2>2, <3>1, TabOfRequestAssumption
    <3>3. q \in DOMAIN cl2[s].ids <=> q \in DOMAIN cl[s].ids
      BY <1>3, <2>2, <3>2
    <3> QED BY <3>1, <3>2, <3>3 DEF ClientsSafe
  <2> QED BY <2>1, <2>2
<1> QED BY <1>3, <1>4, <1>5, <1>6, <1>9, <1>10 DEF ClientsSafe

LEMMA OverClients ==
  ASSUME NEW nt, NEW cl, NEW ft, ClientsSafe(nt, cl, ft), NEW r \in Requests, NEW nt2, NEW cl3,
         NEW ft2, NEW end, NEW url, Over(nt, nt2, cl, cl3, ft, ft2, r, end, url)
  PROVE  ClientsSafe(nt2, cl3, ft2)
<1>1. PICK x, t, cl2 : x = IdOf(cl, r) /\ t = TabOfRequest[r] /\ cl2 = RememberedBy(cl, r)
  OBVIOUS
<1>2. /\ x = <<x[1], x[2]>> /\ x[1] = t /\ x[2] \in Nat /\ t \in Tabs
      /\ x \in DOMAIN ft <=> r \in DOMAIN cl[t].ids
  BY <1>1, IdProperties
<1>n. NamedBy(cl, cl2, t, r, x)
  BY <1>1, RememberedClient
<1>c. cl3 = [cl2 EXCEPT ![t].ids = [q \in DOMAIN @ \ {r} |-> @[q]]]
  BY <1>1 DEF Over
<1>3. /\ cl3 = [s \in Tabs |-> [next |-> cl3[s].next, ids |-> cl3[s].ids]]
      /\ \A s \in Tabs : s # t => cl3[s] = cl[s]
      /\ cl3[t].next \in Nat /\ cl[t].next <= cl3[t].next /\ x[2] < cl3[t].next
      /\ DOMAIN cl3[t].ids = DOMAIN cl[t].ids \ {r}
      /\ \A q \in DOMAIN cl[t].ids : q # r => cl3[t].ids[q] = cl[t].ids[q]
  <2>1. cl2 = [s \in Tabs |-> [next |-> cl2[s].next, ids |-> cl2[s].ids]]
    BY <1>n DEF NamedBy
  <2> DEFINE ids == [q \in DOMAIN cl2[t].ids \ {r} |-> cl2[t].ids[q]]
  <2>2. cl3[t].next = cl2[t].next /\ cl3[t].ids = ids /\ \A s \in Tabs : s # t => cl3[s] = cl2[s]
    BY <1>2, <1>c, <2>1
  <2>3. cl3 = [s \in Tabs |-> [next |-> cl3[s].next, ids |-> cl3[s].ids]]
    <3> HIDE DEF ids
    <3>1. PICK c : cl3 = [cl2 EXCEPT ![t] = c]
      BY <1>c
    <3>2. cl3 = [s \in Tabs |-> IF s = t THEN c ELSE cl2[s]]
      BY <1>2, <2>1, <3>1
    <3>3. cl3[t] = [cl2[t] EXCEPT !.ids = ids]
      BY <1>2, <1>c, <2>1 DEF ids
    <3>4. cl3[t] = [next |-> cl3[t].next, ids |-> cl3[t].ids]
      BY <1>2, <2>1, <3>3
    <3> QED BY <1>2, <2>1, <3>2, <3>4
  <2>4. DOMAIN ids = DOMAIN cl[t].ids \ {r}
        /\ \A q \in DOMAIN cl[t].ids : q # r => ids[q] = cl[t].ids[q]
    BY <1>n DEF NamedBy
  <2> HIDE DEF ids
  <2> QED BY <1>n, <2>2, <2>3, <2>4 DEF NamedBy
<1>4. /\ nt2 = [q \in Requests |-> [at |-> nt2[q].at, url |-> nt2[q].url, hops |-> nt2[q].hops]]
      /\ \A q \in Requests : q # r => nt2[q] = nt[q]
      /\ nt2[r].at \in {"over", "cancelled"}
      /\ DOMAIN ft2 = DOMAIN ft \cup {x} /\ ft2[x].end \in {"finished", "net"} \cup Refused
      /\ \A y \in DOMAIN ft : y # x => ft2[y] = ft[y]
  BY <1>1 DEF Over, Became
<1>5. \A s \in Tabs : cl[s].next \in Nat /\ cl3[s].next \in Nat /\ cl[s].next <= cl3[s].next
  <2>1. \A s \in Tabs : cl[s].next \in Nat
    BY DEF ClientsSafe
  <2> QED BY <1>3, <2>1, SMTT(40), ZenonT(20)
<1>6. ASSUME NEW y \in DOMAIN ft2
      PROVE  /\ y = <<y[1], y[2]>> /\ y[1] \in Tabs /\ y[2] \in Nat /\ y[2] < cl3[y[1]].next
             /\ ft2[y].end \in {"open", "finished", "net"} \cup Refused
  <2>1. CASE y = x
    BY <1>2, <1>3, <1>4, <2>1
  <2>2. CASE y # x
    <3>1. y \in DOMAIN ft /\ ft2[y] = ft[y]
      BY <1>4, <2>2
    <3>2. y = <<y[1], y[2]>> /\ y[1] \in Tabs /\ y[2] \in Nat /\ y[2] < cl[y[1]].next
          /\ ft[y].end \in {"open", "finished", "net"} \cup Refused
      BY <3>1 DEF ClientsSafe
    <3>3. y[2] < cl3[y[1]].next
      BY <1>5, <3>2
    <3> QED BY <3>1, <3>2, <3>3
  <2> QED BY <2>1, <2>2
<1>7. ASSUME NEW s \in Tabs, NEW q \in DOMAIN cl3[s].ids
      PROVE  q # r /\ q \in DOMAIN cl[s].ids /\ cl3[s].ids[q] = cl[s].ids[q]
  <2>1. CASE s = t
    BY <1>3, <2>1
  <2>2. CASE s # t
    <3>1. q \in DOMAIN cl[s].ids /\ cl3[s].ids[q] = cl[s].ids[q]
      BY <1>3, <2>2
    <3>2. TabOfRequest[q] = s
      BY <3>1 DEF ClientsSafe
    <3> QED BY <1>1, <2>2, <3>1, <3>2
  <2> QED BY <2>1, <2>2
<1>8. ASSUME NEW s \in Tabs, NEW q \in DOMAIN cl3[s].ids
      PROVE  /\ q \in Requests /\ TabOfRequest[q] = s
             /\ cl3[s].ids[q] \in DOMAIN ft2 /\ cl3[s].ids[q][1] = s
             /\ ft2[cl3[s].ids[q]].end = "open" /\ ft2[cl3[s].ids[q]].url = nt2[q].url
             /\ \A p \in DOMAIN cl3[s].ids : cl3[s].ids[p] = cl3[s].ids[q] => p = q
  <2>1. PICK y : y = cl[s].ids[q]
    OBVIOUS
  <2>2. /\ q # r /\ q \in DOMAIN cl[s].ids /\ cl3[s].ids[q] = y
    BY <1>7, <2>1
  <2>3. /\ q \in Requests /\ TabOfRequest[q] = s /\ y \in DOMAIN ft /\ y[1] = s
        /\ ft[y].end = "open" /\ ft[y].url = nt[q].url
    BY <2>1, <2>2, OwnIds
  <2>4. y # x
    <3> SUFFICES ASSUME y = x PROVE FALSE
      OBVIOUS
    <3>1. s = t /\ r \in DOMAIN cl[t].ids
      BY <1>2, <2>3
    <3>2. cl[t].ids[r] = x
      BY <1>1, <3>1 DEF IdOf
    <3>3. q \in DOMAIN cl[t].ids /\ cl[t].ids[q] = cl[t].ids[r]
      BY <2>1, <2>2, <3>1, <3>2
    <3>5. q = r
      BY <1>2, <3>1, <3>3, IdsDiffer
    <3> QED BY <2>2, <3>5
  <2>5. ASSUME NEW p \in DOMAIN cl3[s].ids, cl3[s].ids[p] = cl3[s].ids[q] PROVE p = q
    <3>1. p \in DOMAIN cl[s].ids /\ cl[s].ids[p] = cl[s].ids[q]
      BY <1>7, <2>1, <2>2, <2>5
    <3> QED BY <2>2, <3>1, IdsDiffer
  <2> QED BY <1>4, <2>2, <2>3, <2>4, <2>5
<1>9. ASSUME NEW q \in Requests
      PROVE  /\ nt2[q].at \in {"loading", "answered"} => q \in DOMAIN cl3[TabOfRequest[q]].ids
             /\ nt2[q].at \in {"none", "over", "cancelled"} =>
                  q \notin DOMAIN cl3[TabOfRequest[q]].ids
  <2>1. CASE q = r
    BY <1>1, <1>3, <1>4, <2>1
  <2>2. CASE q # r
    <3>1. PICK s : s = TabOfRequest[q]
      OBVIOUS
    <3>2. nt2[q] = nt[q] /\ s \in Tabs
      BY <1>4, <2>2, <3>1, TabOfRequestAssumption
    <3>3. q \in DOMAIN cl3[s].ids <=> q \in DOMAIN cl[s].ids
      BY <1>3, <2>2, <3>2
    <3> QED BY <3>1, <3>2, <3>3 DEF ClientsSafe
  <2> QED BY <2>1, <2>2
<1> QED BY <1>3, <1>4, <1>5, <1>6, <1>8, <1>9 DEF ClientsSafe

-----------------------------------------------------------------------------
\* The log of decisions.

\* A request that goes on, or ends without being refused, leaves the log as it should be.
LEMMA LogFollows ==
  ASSUME NEW lg, NEW ft, LogSafe(lg, ft), NEW ft2, NEW x, NEW end, NEW url,
         Became(ft, ft2, x, end, url), end \notin Refused,
         x \in DOMAIN ft => ft[x].end = "open"
  PROVE  LogSafe(lg, ft2)
<1>1. ASSUME NEW y \in DOMAIN ft
      PROVE  y \in DOMAIN ft2 /\ (ft2[y].end \in Refused <=> ft[y].end \in Refused)
  BY DEF Became, Refused
<1>2. ASSUME NEW y \in DOMAIN ft2, ft2[y].end \in Refused
      PROVE  y \in DOMAIN ft
  BY <1>2 DEF Became
<1>3. ASSUME NEW i \in 1 .. Len(lg)
      PROVE  /\ lg[i].id \in DOMAIN ft2 /\ lg[i].blocked \in BOOLEAN
             /\ lg[i].blocked => ft2[lg[i].id].end \in Refused
             /\ ft2[lg[i].id].end \in Refused
                  /\ (\A j \in 1 .. Len(lg) : i < j => lg[j].id # lg[i].id)
                  => lg[i].blocked
  BY <1>1 DEF LogSafe
<1>4. Len(lg) < LogCapacity =>
        \A y \in DOMAIN ft2 : ft2[y].end \in Refused => \E i \in 1 .. Len(lg) : lg[i].id = y
  BY <1>1, <1>2 DEF LogSafe
<1>5. \E T : lg \in Seq(T)
  BY DEF LogSafe
<1> QED BY <1>3, <1>4, <1>5 DEF LogSafe

\* A decision is the newest one about its request, and the oldest one makes room for it.
LEMMA LogDecides ==
  ASSUME NEW lg, NEW ft, LogSafe(lg, ft), NEW ft2, NEW x, NEW end, NEW url,
         Became(ft, ft2, x, end, url), NEW b \in BOOLEAN, b <=> end \in Refused,
         x \in DOMAIN ft => ft[x].end = "open", NEW layer, NEW lg2,
         lg2 = AddDecision(lg, Decision(x, b, layer))
  PROVE  LogSafe(lg2, ft2)
<1> DEFINE c == LogCapacity - 1
<1>0. LogCapacity \in Nat \ {0} /\ c \in Nat
  BY TraceAssumption
<1>1. PICK T : lg \in Seq(T)
  BY DEF LogSafe
<1>2. PICK w, dec : w = Newest(lg, c) /\ dec = Decision(x, b, layer) /\ lg2 = Append(w, dec)
  BY DEF AddDecision
<1>3. dec.id = x /\ dec.blocked = b
  BY <1>2 DEF Decision
<1> HIDE DEF c
<1>4. /\ w \in Seq(T) /\ Len(w) \in Nat /\ Len(w) <= c /\ Len(lg) \in Nat
      /\ \E d \in Nat : IsNewest(lg, w, c, d)
  BY <1>0, <1>1, <1>2, NewestProperties
<1>5. PICK d \in Nat : /\ Len(lg) = Len(w) + d /\ (d > 0 => Len(w) = c)
                       /\ \A i \in 1 .. Len(w) : w[i] = lg[i + d]
  BY <1>4 DEF IsNewest
<1> DEFINE n == Len(w)
<1>6. /\ lg2 \in Seq(T \cup {dec}) /\ Len(lg2) = n + 1 /\ lg2[n + 1] = dec
      /\ \A i \in 1 .. n : lg2[i] = lg[i + d] /\ i + d \in 1 .. Len(lg)
  BY <1>2, <1>4, <1>5
<1>7. n \in Nat /\ \A i \in 1 .. n + 1 : i \in 1 .. n \/ i = n + 1
  BY <1>4
<1>8. /\ DOMAIN ft2 = DOMAIN ft \cup {x} /\ ft2[x].end = end
      /\ \A y \in DOMAIN ft : y # x => ft2[y] = ft[y]
  BY DEF Became
<1>9. ASSUME NEW i \in 1 .. n
      PROVE  /\ lg2[i].id \in DOMAIN ft2 /\ lg2[i].blocked \in BOOLEAN
             /\ lg2[i].blocked => ft2[lg2[i].id].end \in Refused
             /\ ft2[lg2[i].id].end \in Refused
                  /\ (\A j \in 1 .. n + 1 : i < j => lg2[j].id # lg2[i].id)
                  => lg2[i].blocked
  <2>1. PICK k \in 1 .. Len(lg) : k = i + d /\ lg2[i] = lg[k]
    BY <1>6
  <2>2. /\ lg[k].id \in DOMAIN ft /\ lg[k].blocked \in BOOLEAN
        /\ lg[k].blocked => ft[lg[k].id].end \in Refused
        /\ ft[lg[k].id].end \in Refused
             /\ (\A j \in 1 .. Len(lg) : k < j => lg[j].id # lg[k].id)
             => lg[k].blocked
    BY DEF LogSafe
  <2>3. CASE lg[k].id = x
    <3>1. ~lg[k].blocked
      BY <2>2, <2>3 DEF Refused
    <3>2. n + 1 \in 1 .. n + 1 /\ i < n + 1 /\ lg2[n + 1].id = lg2[i].id
      BY <1>3, <1>6, <1>7, <2>1, <2>3
    <3> QED BY <1>8, <2>1, <2>2, <2>3, <3>1, <3>2
  <2>4. CASE lg[k].id # x
    <3>1. ft2[lg[k].id] = ft[lg[k].id] /\ lg[k].id \in DOMAIN ft2
      BY <1>8, <2>2, <2>4
    <3>2. ASSUME \A j \in 1 .. n + 1 : i < j => lg2[j].id # lg2[i].id,
                 NEW j \in 1 .. Len(lg), k < j
          PROVE  lg[j].id # lg[k].id
      <4>1. PICK h : h = j - d
        OBVIOUS
      <4>2. h \in 1 .. n /\ h + d = j /\ i < h /\ h \in 1 .. n + 1
        BY <1>4, <1>5, <1>7, <2>1, <3>2, <4>1
      <4>3. lg2[h] = lg[j]
        BY <1>6, <4>2
      <4> QED BY <2>1, <3>2, <4>2, <4>3
    <3> QED BY <2>1, <2>2, <3>1, <3>2
  <2> QED BY <2>3, <2>4
<1>10. /\ lg2[n + 1].id \in DOMAIN ft2 /\ lg2[n + 1].blocked \in BOOLEAN
       /\ lg2[n + 1].blocked <=> ft2[lg2[n + 1].id].end \in Refused
  BY <1>3, <1>6, <1>8
<1>11. ASSUME Len(lg2) < LogCapacity, NEW y \in DOMAIN ft2, ft2[y].end \in Refused
       PROVE  \E i \in 1 .. Len(lg2) : lg2[i].id = y
  <2>1. CASE y = x
    <3>1. n + 1 \in 1 .. Len(lg2) /\ lg2[n + 1].id = y
      BY <1>3, <1>6, <1>7, <2>1
    <3> QED BY <3>1
  <2>2. CASE y # x
    <3>1. n < c
      BY <1>0, <1>6, <1>7, <1>11 DEF c
    <3>2. d = 0
      BY <1>0, <1>5, <1>7, <3>1
    <3>3. Len(lg) < LogCapacity
      BY <1>0, <1>5, <1>7, <3>1, <3>2 DEF c
    <3>4. y \in DOMAIN ft /\ ft[y].end \in Refused
      BY <1>8, <1>11, <2>2
    <3>5. PICK i \in 1 .. Len(lg) : lg[i].id = y
      BY <3>3, <3>4 DEF LogSafe
    <3>6. i \in 1 .. n /\ i + d = i /\ i \in 1 .. Len(lg2)
      BY <1>5, <1>6, <1>7, <3>2
    <3>7. lg2[i].id = y
      BY <1>6, <3>5, <3>6
    <3> QED BY <3>6, <3>7
  <2> QED BY <2>1, <2>2
<1>12. ASSUME NEW i \in 1 .. Len(lg2)
       PROVE  /\ lg2[i].id \in DOMAIN ft2 /\ lg2[i].blocked \in BOOLEAN
              /\ lg2[i].blocked => ft2[lg2[i].id].end \in Refused
              /\ ft2[lg2[i].id].end \in Refused
                   /\ (\A j \in 1 .. Len(lg2) : i < j => lg2[j].id # lg2[i].id)
                   => lg2[i].blocked
  <2>1. i \in 1 .. n \/ i = n + 1
    BY <1>6, <1>7
  <2>2. Len(lg2) = n + 1
    BY <1>6
  <2> HIDE DEF n
  <2> QED BY <1>9, <1>10, <2>1, <2>2
<1>13. \E U : lg2 \in Seq(U)
  BY <1>6
<1> QED BY <1>11, <1>12, <1>13 DEF LogSafe

-----------------------------------------------------------------------------
\* The steps of the IO thread.

LEMMA HistoryPosted ==
  ASSUME NEW evs, IsEvents(evs), NEW ts, IsTasks(ts), NEW ft, HistorySafe(EventsOf(evs, ts), ft),
         NEW e, IsEvent(e), NEW ts2, ts2 = Append(ts, Delivery(e)), NEW ft2, NEW end, NEW url,
         Became(ft, ft2, e.id, end, url), Fits(e, ft2[e.id]),
         e.id \in DOMAIN ft =>
           ft[e.id].end = "open" /\ (e.kind = "Redirect" \/ e.url = ft[e.id].url)
  PROVE  HistorySafe(EventsOf(evs, ts2), ft2)
<1>1. PICK x, ev, ev2 : x = Delivery(e) /\ ev = EventsOf(evs, ts) /\ ev2 = EventsOf(evs, ts2)
  OBVIOUS
<1>2. x.kind = "deliver" /\ x.event = e
  BY <1>1 DEF Delivery
<1>3. \E n \in Nat : GrownBy(ev, ev2, n, x.event)
  BY <1>1, <1>2, EventPosted
<1>4. PICK n \in Nat : /\ DOMAIN ev2 = DOMAIN ev \cup {n} /\ ev2[n] = e
                       /\ \A i \in DOMAIN ev : i < n /\ ev2[i] = ev[i]
  BY <1>2, <1>3 DEF GrownBy
<1>5. HistorySafe(ev, ft)
  BY <1>1
<1>6. HistorySafe(ev2, ft2)
  BY <1>4, <1>5, HistoryGrows, SMTT(40), ZenonT(20)
<1> QED BY <1>1, <1>6

\* The log stays, or has one more decision that lets request x pass.
LogGoes(lg, lg2, x) == lg2 = lg \/ \E layer : lg2 = AddDecision(lg, Decision(x, FALSE, layer))

\* Event e tells that request x goes on, at an address that only a redirect changes.
TellsOf(e, x, url, old) ==
  e.id = x /\ ~Final(e) /\ e.url = url /\ (e.kind = "Redirect" \/ url = old)

\* Of a request that goes on.
LEMMA RequestGoes ==
  ASSUME NEW evs, NEW ts, NEW nt, NEW cl, NEW ft, NEW lg, RowsAgree(evs, ts, nt, cl, ft, lg),
         IsTasks(ts), NEW r \in Requests, NEW x, x = IdOf(cl, r),
         NEW nt2, NEW cl2, NEW ft2, NEW url, Goes(nt, nt2, cl, cl2, ft, ft2, r, url),
         NEW e, IsEvent(e), TellsOf(e, x, url, nt[r].url),
         NEW ts2, ts2 = Append(ts, Delivery(e)), NEW lg2,
         LogGoes(lg, lg2, x)
  PROVE  RowsAgree(evs, ts2, nt2, cl2, ft2, lg2)
<1>1. IsEvents(evs) /\ HistorySafe(EventsOf(evs, ts), ft) /\ ClientsSafe(nt, cl, ft)
      /\ LogSafe(lg, ft)
  BY DEF RowsAgree
<1>2. Became(ft, ft2, x, "open", url)
  BY DEF Goes
<1>3. x \in DOMAIN ft => ft[x].end = "open" /\ ft[x].url = nt[r].url
  BY <1>1, IdProperties
<1>4. Fits(e, ft2[x])
  BY <1>2 DEF Became, Fits, Refused, TellsOf
<1>5. HistorySafe(EventsOf(evs, ts2), ft2)
  <2>1. Became(ft, ft2, e.id, "open", url) /\ Fits(e, ft2[e.id])
    BY <1>2, <1>4 DEF TellsOf
  <2>2. e.id \in DOMAIN ft =>
          ft[e.id].end = "open" /\ (e.kind = "Redirect" \/ e.url = ft[e.id].url)
    BY <1>3 DEF TellsOf
  <2> QED BY <1>1, <2>1, <2>2, HistoryPosted
<1>6. ClientsSafe(nt2, cl2, ft2)
  BY <1>1, GoingClients
<1>7. LogSafe(lg2, ft2)
  <2>1. "open" \notin Refused
    BY DEF Refused
  <2>2. CASE lg2 = lg
    BY <1>1, <1>2, <1>3, <2>1, <2>2, LogFollows
  <2>3. ASSUME NEW layer, lg2 = AddDecision(lg, Decision(x, FALSE, layer))
        PROVE  LogSafe(lg2, ft2)
    <3>1. PICK b \in BOOLEAN : b = FALSE
      OBVIOUS
    <3>2. lg2 = AddDecision(lg, Decision(x, b, layer)) /\ (b <=> "open" \in Refused)
      BY <2>1, <2>3, <3>1
    <3> QED BY <1>1, <1>2, <1>3, <3>2, LogDecides
  <2> QED BY <2>2, <2>3 DEF LogGoes
<1> QED BY <1>1, <1>5, <1>6, <1>7 DEF RowsAgree

\* Of one whose end is reported.
LEMMA RequestEnds ==
  ASSUME NEW evs, NEW ts, NEW nt, NEW cl, NEW ft, NEW lg, RowsAgree(evs, ts, nt, cl, ft, lg),
         IsTasks(ts), NEW r \in Requests, NEW x, x = IdOf(cl, r),
         NEW nt2, NEW cl2, NEW ft2, NEW end, NEW url, url = nt[r].url, end \notin Refused,
         Over(nt, nt2, cl, cl2, ft, ft2, r, end, url),
         NEW e, IsEvent(e), e.id = x, e.url = url,
         end = "finished" => e.kind = "Finished", end = "net" => e.kind = "Failed" /\ e.error = end,
         NEW ts2, ts2 = Append(ts, Delivery(e))
  PROVE  RowsAgree(evs, ts2, nt2, cl2, ft2, lg)
<1>1. IsEvents(evs) /\ HistorySafe(EventsOf(evs, ts), ft) /\ ClientsSafe(nt, cl, ft)
      /\ LogSafe(lg, ft)
  BY DEF RowsAgree
<1>2. Became(ft, ft2, x, end, url) /\ end \in {"finished", "net"}
  BY DEF Over
<1>3. x \in DOMAIN ft => ft[x].end = "open" /\ ft[x].url = nt[r].url
  BY <1>1, IdProperties
<1>4. Fits(e, ft2[x])
  BY <1>2 DEF Became, Fits, Refused
<1>5. HistorySafe(EventsOf(evs, ts2), ft2)
  <2>1. Became(ft, ft2, e.id, end, url) /\ Fits(e, ft2[e.id])
    BY <1>2, <1>4
  <2>2. e.id \in DOMAIN ft =>
          ft[e.id].end = "open" /\ (e.kind = "Redirect" \/ e.url = ft[e.id].url)
    BY <1>3
  <2> QED BY <1>1, <2>1, <2>2, HistoryPosted
<1>6. ClientsSafe(nt2, cl2, ft2)
  BY <1>1, OverClients
<1>7. LogSafe(lg, ft2)
  BY <1>1, <1>2, <1>3, LogFollows
<1> QED BY <1>1, <1>5, <1>6, <1>7 DEF RowsAgree

\* The log has one more decision, that refuses request x.
LogRefuses(lg, lg2, x) == \E layer : lg2 = AddDecision(lg, Decision(x, TRUE, layer))

\* Of one that is refused: it starts and fails at once.
LEMMA RequestRefused ==
  ASSUME NEW evs, NEW ts, NEW nt, NEW cl, NEW ft, NEW lg, RowsAgree(evs, ts, nt, cl, ft, lg),
         IsTasks(ts), NEW r \in Requests, NEW x, x = IdOf(cl, r),
         NEW nt2, NEW cl2, NEW ft2, NEW end \in Refused, NEW url, url = nt[r].url,
         Over(nt, nt2, cl, cl2, ft, ft2, r, end, url),
         NEW d, IsEvent(d), d.id = x, d.url = url, d.kind = "Started",
         NEW e, IsEvent(e), e.id = x, e.url = url, e.kind = "Failed", e.error = end,
         NEW ts2, ts2 = Append(Append(ts, Delivery(d)), Delivery(e)), NEW lg2,
         LogRefuses(lg, lg2, x)
  PROVE  RowsAgree(evs, ts2, nt2, cl2, ft2, lg2)
<1>1. IsEvents(evs) /\ HistorySafe(EventsOf(evs, ts), ft) /\ ClientsSafe(nt, cl, ft)
      /\ LogSafe(lg, ft)
  BY DEF RowsAgree
<1>2. Became(ft, ft2, x, end, url)
  BY DEF Over
<1>3. x \in DOMAIN ft => ft[x].end = "open" /\ ft[x].url = nt[r].url
  BY <1>1, IdProperties
<1>4. PICK ft1, ts1 : ft1 = With(ft, x, [end |-> "open", url |-> url])
                      /\ ts1 = Append(ts, Delivery(d))
  OBVIOUS
<1>5. Became(ft, ft1, x, "open", url)
  BY <1>4, WithBecomes
<1>6. Became(ft1, ft2, x, end, url)
  BY <1>2, <1>5 DEF Became
<1>7. Fits(d, ft1[x]) /\ Fits(e, ft2[x])
  BY <1>2, <1>5 DEF Became, Fits, Final, Refused
<1>8. HistorySafe(EventsOf(evs, ts1), ft1)
  <2>1. Became(ft, ft1, d.id, "open", url) /\ Fits(d, ft1[d.id])
    BY <1>5, <1>7
  <2>2. d.id \in DOMAIN ft =>
          ft[d.id].end = "open" /\ (d.kind = "Redirect" \/ d.url = ft[d.id].url)
    BY <1>3
  <2> QED BY <1>1, <1>4, <2>1, <2>2, HistoryPosted
<1>9. IsTasks(ts1)
  <2>1. PICK y : y = Delivery(d)
    OBVIOUS
  <2>2. y.kind = "deliver" /\ y.event = d
    BY <2>1 DEF Delivery
  <2> QED BY <1>4, <2>1, <2>2, TaskPosted, SMTT(40), ZenonT(20)
<1>10. HistorySafe(EventsOf(evs, ts2), ft2)
  <2>1. Became(ft1, ft2, e.id, end, url) /\ Fits(e, ft2[e.id])
    BY <1>6, <1>7
  <2>2. e.id \in DOMAIN ft1 =>
          ft1[e.id].end = "open" /\ (e.kind = "Redirect" \/ e.url = ft1[e.id].url)
    BY <1>5 DEF Became
  <2>3. ts2 = Append(ts1, Delivery(e))
    BY <1>4
  <2> QED BY <1>1, <1>8, <1>9, <2>1, <2>2, <2>3, HistoryPosted
<1>11. ClientsSafe(nt2, cl2, ft2)
  BY <1>1, OverClients
<1>12. LogSafe(lg2, ft2)
  <2>1. PICK b \in BOOLEAN : b = TRUE
    OBVIOUS
  <2>2. PICK layer : lg2 = AddDecision(lg, Decision(x, b, layer))
    BY <2>1 DEF LogRefuses
  <2> QED BY <1>1, <1>2, <1>3, <2>1, <2>2, LogDecides
<1> QED BY <1>1, <1>10, <1>11, <1>12 DEF RowsAgree

-----------------------------------------------------------------------------
\* Every step keeps the invariant of the rows.

\* Request r alone has moved, to a and address url.
NetMoved(nt, nt2, r, a, url) ==
  /\ nt2 = [q \in Requests |-> [at |-> nt2[q].at, url |-> nt2[q].url, hops |-> nt2[q].hops]]
  /\ \A q \in Requests : q # r => nt2[q] = nt[q]
  /\ nt2[r].at = a /\ nt2[r].url = url

LEMMA NetMoves ==
  ASSUME NEW nt, NEW cl, NEW ft, ClientsSafe(nt, cl, ft), NEW r \in Requests, NEW a, NEW nt2
  PROVE  /\ nt2 = [nt EXCEPT ![r].at = a] => NetMoved(nt, nt2, r, a, nt[r].url)
         /\ \A url, hops : nt2 = [nt EXCEPT ![r] = [at |-> a, url |-> url, hops |-> hops]]
              => NetMoved(nt, nt2, r, a, url)
<1>1. nt = [q \in Requests |-> [at |-> nt[q].at, url |-> nt[q].url, hops |-> nt[q].hops]]
  BY DEF ClientsSafe
<1>2. ASSUME NEW c, c = [at |-> c.at, url |-> c.url, hops |-> c.hops], nt2 = [nt EXCEPT ![r] = c]
      PROVE  NetMoved(nt, nt2, r, c.at, c.url)
  <2>1. nt2 = [q \in Requests |-> IF q = r THEN c ELSE nt[q]]
    BY <1>1, <1>2
  <2>2. \A q \in Requests : nt2[q] = [at |-> nt2[q].at, url |-> nt2[q].url, hops |-> nt2[q].hops]
    BY <1>1, <1>2, <2>1
  <2> QED BY <2>1, <2>2 DEF NetMoved
<1>3. ASSUME nt2 = [nt EXCEPT ![r].at = a] PROVE NetMoved(nt, nt2, r, a, nt[r].url)
  <2>1. PICK c : c = [at |-> a, url |-> nt[r].url, hops |-> nt[r].hops]
    OBVIOUS
  <2>2. [nt[r] EXCEPT !.at = a] = c
    BY <1>1, <2>1
  <2>3. nt2 = [nt EXCEPT ![r] = c]
    BY <1>3, <2>2
  <2>4. c = [at |-> c.at, url |-> c.url, hops |-> c.hops] /\ c.at = a /\ c.url = nt[r].url
    BY <2>1
  <2>5. NetMoved(nt, nt2, r, c.at, c.url)
    BY <1>2, <2>3, <2>4
  <2> QED BY <2>4, <2>5
<1>4. ASSUME NEW url, NEW hops, nt2 = [nt EXCEPT ![r] = [at |-> a, url |-> url, hops |-> hops]]
      PROVE  NetMoved(nt, nt2, r, a, url)
  <2>1. PICK c : c = [at |-> a, url |-> url, hops |-> hops]
    OBVIOUS
  <2>2. c = [at |-> c.at, url |-> c.url, hops |-> c.hops] /\ c.at = a /\ c.url = url
    BY <2>1
  <2>3. NetMoved(nt, nt2, r, c.at, c.url)
    BY <1>2, <1>4, <2>1, <2>2
  <2> QED BY <2>2, <2>3
<1> QED BY <1>3, <1>4

LEMMA IdsOfClients ==
  ASSUME NEW r
  PROVE  /\ TraceRequestId(r) = IdOf(clients, r) /\ Remembering(r) = RememberedBy(clients, r)
         /\ Forgetting(r) = [RememberedBy(clients, r) EXCEPT ![TabOfRequest[r]].ids =
                               [q \in DOMAIN @ \ {r} |-> @[q]]]
BY DEF TraceRequestId, IdOf, Client, Remembering, RememberedBy, Forgetting

\* A request begins.
LEMMA BeginKeepsRows ==
  ASSUME RowsSafe, NEW r \in Requests, Begin(r)
  PROVE  RowsSafe'
<1>1. PICK nt2 : nt2 = net'
  OBVIOUS
<1>2. /\ IsEvents(trace.events) /\ HistorySafe(EventsOf(trace.events, tasks), fate)
      /\ ClientsSafe(net, clients, fate) /\ LogSafe(log, fate)
  BY DEF RowsSafe, RowsAgree
<1>3. PICK url : nt2 = [net EXCEPT ![r] = [at |-> "starting", url |-> url, hops |-> 0]]
  BY <1>1 DEF Begin
<1>4. NetMoved(net, nt2, r, "starting", url)
  BY <1>2, <1>3, NetMoves
<1>5. net[r].at = "none" /\ UNCHANGED <<trace, tasks, clients, fate, log>>
  BY DEF Begin, uiVars
<1>6. r \notin DOMAIN clients[TabOfRequest[r]].ids
  BY <1>2, <1>5 DEF ClientsSafe
<1>7. ASSUME NEW s \in Tabs, NEW q \in DOMAIN clients[s].ids
      PROVE  nt2[q] = net[q]
  <2>1. q \in Requests /\ TabOfRequest[q] = s
    BY <1>2 DEF ClientsSafe
  <2>2. q # r
    BY <1>6, <2>1
  <2> QED BY <1>4, <2>1, <2>2 DEF NetMoved
<1>8. ASSUME NEW q \in Requests
      PROVE  /\ nt2[q].at \in {"loading", "answered"} => q \in DOMAIN clients[TabOfRequest[q]].ids
             /\ nt2[q].at \in {"none", "over", "cancelled"} =>
                  q \notin DOMAIN clients[TabOfRequest[q]].ids
  <2>1. CASE q = r
    BY <1>4, <2>1 DEF NetMoved
  <2>2. CASE q # r
    <3>1. nt2[q] = net[q]
      BY <1>4, <2>2 DEF NetMoved
    <3> QED BY <1>2, <3>1 DEF ClientsSafe
  <2> QED BY <2>1, <2>2
<1>9. ClientsSafe(nt2, clients, fate)
  <2>1. nt2 = [q \in Requests |-> [at |-> nt2[q].at, url |-> nt2[q].url, hops |-> nt2[q].hops]]
    BY <1>4 DEF NetMoved
  <2>2. ASSUME NEW s \in Tabs, NEW q \in DOMAIN clients[s].ids
        PROVE  /\ q \in Requests /\ TabOfRequest[q] = s
               /\ clients[s].ids[q] \in DOMAIN fate /\ clients[s].ids[q][1] = s
               /\ fate[clients[s].ids[q]].end = "open"
               /\ fate[clients[s].ids[q]].url = nt2[q].url
               /\ \A p \in DOMAIN clients[s].ids :
                    clients[s].ids[p] = clients[s].ids[q] => p = q
    BY <1>2, <1>7, OwnIds, IdsDiffer
  <2>3. /\ clients = [s \in Tabs |-> [next |-> clients[s].next, ids |-> clients[s].ids]]
        /\ \A s \in Tabs : clients[s].next \in Nat
        /\ \A y \in DOMAIN fate : /\ y = <<y[1], y[2]>> /\ y[1] \in Tabs /\ y[2] \in Nat
                                  /\ y[2] < clients[y[1]].next
                                  /\ fate[y].end \in {"open", "finished", "net"} \cup Refused
    BY <1>2 DEF ClientsSafe
  <2> QED BY <1>8, <2>1, <2>2, <2>3, SMTT(40), ZenonT(20) DEF ClientsSafe
<1>10. RowsAgree(trace.events, tasks, nt2, clients, fate, log)
  BY <1>2, <1>9 DEF RowsAgree
<1> QED BY <1>1, <1>5, <1>10 DEF RowsSafe

\* It is let through.
LEMMA LoadKeepsRows ==
  ASSUME UiSafe, RowsSafe, NEW r \in Requests, NEW layer,
         Load(r, Decision(TraceRequestId(r), FALSE, layer))
  PROVE  RowsSafe'
<1>1. PICK ts2, nt2, cl2, ft2, lg2 :
        ts2 = tasks' /\ nt2 = net' /\ cl2 = clients' /\ ft2 = fate' /\ lg2 = log'
  OBVIOUS
<1>2. PICK url, x, e : /\ url = net[r].url /\ x = IdOf(clients, r)
                       /\ e = Event(r, "Started", url, NoStatus, NoError)
  OBVIOUS
<1>3. RowsAgree(trace.events, tasks, net, clients, fate, log) /\ IsTasks(tasks)
      /\ ClientsSafe(net, clients, fate)
  BY DEF RowsSafe, RowsAgree, UiSafe
<1>4. TraceRequestId(r) = x /\ Remembering(r) = RememberedBy(clients, r)
  BY <1>2, IdsOfClients
<1>5. /\ ts2 = tasks \o <<Delivery(e)>> /\ lg2 = AddDecision(log, Decision(x, FALSE, layer))
      /\ ft2 = With(fate, x, [end |-> "open", url |-> url])
      /\ cl2 = RememberedBy(clients, r) /\ nt2 = [net EXCEPT ![r].at = "loading"]
      /\ trace' = trace
  BY <1>1, <1>2, <1>4 DEF Load, Post, Fate, uiVars
<1>6. IsEvent(e) /\ TellsOf(e, x, url, net[r].url)
  BY <1>2, <1>4, EventProperties DEF Final, TellsOf
<1>7. ts2 = Append(tasks, Delivery(e))
  BY <1>3, <1>5, <1>6, OnePosted
<1>8. Goes(net, nt2, clients, cl2, fate, ft2, r, url)
  <2>1. NetMoved(net, nt2, r, "loading", url)
    BY <1>2, <1>3, <1>5, NetMoves
  <2>2. Became(fate, ft2, x, "open", url)
    BY <1>5, WithBecomes
  <2> QED BY <1>2, <1>5, <2>1, <2>2 DEF Goes, NetMoved
<1>9. RowsAgree(trace.events, ts2, nt2, cl2, ft2, lg2)
  <2>1. LogGoes(log, lg2, x)
    BY <1>5 DEF LogGoes
  <2> QED BY <1>2, <1>3, <1>6, <1>7, <1>8, <2>1, RequestGoes
<1> QED BY <1>1, <1>5, <1>9 DEF RowsSafe

\* Or refused.
LEMMA BlockKeepsRows ==
  ASSUME UiSafe, RowsSafe, NEW r \in Requests, NEW layer, NEW end \in Refused,
         Block(r, end, Decision(TraceRequestId(r), TRUE, layer))
  PROVE  RowsSafe'
<1>1. PICK ts2, nt2, cl2, ft2, lg2 :
        ts2 = tasks' /\ nt2 = net' /\ cl2 = clients' /\ ft2 = fate' /\ lg2 = log'
  OBVIOUS
<1>2. PICK url, x, d, e : /\ url = net[r].url /\ x = IdOf(clients, r)
                          /\ d = Event(r, "Started", url, NoStatus, NoError)
                          /\ e = Event(r, "Failed", url, NoStatus, end)
  OBVIOUS
<1>3. RowsAgree(trace.events, tasks, net, clients, fate, log) /\ IsTasks(tasks)
      /\ ClientsSafe(net, clients, fate)
  BY DEF RowsSafe, RowsAgree, UiSafe
<1>4. TraceRequestId(r) = x
      /\ Forgetting(r) = [RememberedBy(clients, r) EXCEPT ![TabOfRequest[r]].ids =
                            [q \in DOMAIN @ \ {r} |-> @[q]]]
  BY <1>2, IdsOfClients
<1>5. PICK a \in {"over", "cancelled"} : nt2 = [net EXCEPT ![r].at = a]
  BY <1>1 DEF Block
<1>6. /\ ts2 = tasks \o <<Delivery(d), Delivery(e)>>
      /\ lg2 = AddDecision(log, Decision(x, TRUE, layer))
      /\ ft2 = With(fate, x, [end |-> end, url |-> url])
      /\ cl2 = Forgetting(r) /\ trace' = trace
  BY <1>1, <1>2, <1>4 DEF Block, Post, Fate, uiVars
<1>7. IsEvent(d) /\ d.id = x /\ d.url = url /\ d.kind = "Started"
  BY <1>2, <1>4, EventProperties
<1>8. IsEvent(e) /\ e.id = x /\ e.url = url /\ e.kind = "Failed" /\ e.error = end
  BY <1>2, <1>4, EventProperties
<1>9. ts2 = Append(Append(tasks, Delivery(d)), Delivery(e))
  BY <1>3, <1>6, <1>7, <1>8, TwoPosted
<1>10. Over(net, nt2, clients, cl2, fate, ft2, r, end, url)
  <2>1. NetMoved(net, nt2, r, a, url)
    BY <1>2, <1>3, <1>5, NetMoves
  <2>2. Became(fate, ft2, x, end, url)
    BY <1>6, WithBecomes
  <2> QED BY <1>2, <1>4, <1>6, <2>1, <2>2 DEF Over, NetMoved
<1>11. RowsAgree(trace.events, ts2, nt2, cl2, ft2, lg2)
  <2>1. LogRefuses(log, lg2, x)
    BY <1>6 DEF LogRefuses
  <2>2. url = net[r].url /\ x = IdOf(clients, r)
    BY <1>2
  <2> QED BY <1>3, <1>7, <1>8, <1>9, <1>10, <2>1, <2>2, RequestRefused, ZenonT(60), SMTT(40)
<1> QED BY <1>1, <1>6, <1>11 DEF RowsSafe

LEMMA BeforeLoadKeepsRows ==
  ASSUME UiSafe, RowsSafe, NEW r \in Requests, OnBeforeResourceLoad(r)
  PROVE  RowsSafe'
<1>1. PICK x : x = TraceRequestId(r)
  OBVIOUS
<1>2. \/ Block(r, "policy", Decision(x, TRUE, "CapabilityPolicy"))
      \/ Load(r, Decision(x, FALSE, "UserAgentPolicy"))
      \/ Block(r, "filter", Decision(x, TRUE, "ContentFilter"))
      \/ Load(r, Decision(x, FALSE, "ContentFilter"))
  BY <1>1 DEF OnBeforeResourceLoad
<1>3. PICK p \in Refused, f \in Refused : p = "policy" /\ f = "filter"
  BY DEF Refused
<1>4. CASE Block(r, "policy", Decision(x, TRUE, "CapabilityPolicy"))
  BY <1>1, <1>3, <1>4, BlockKeepsRows
<1>5. CASE Block(r, "filter", Decision(x, TRUE, "ContentFilter"))
  BY <1>1, <1>3, <1>5, BlockKeepsRows
<1>6. CASE Load(r, Decision(x, FALSE, "UserAgentPolicy"))
  BY <1>1, <1>6, LoadKeepsRows
<1>7. CASE Load(r, Decision(x, FALSE, "ContentFilter"))
  BY <1>1, <1>7, LoadKeepsRows
<1> QED BY <1>2, <1>4, <1>5, <1>6, <1>7

\* Its address changes.
LEMMA RedirectKeepsRows ==
  ASSUME UiSafe, RowsSafe, NEW r \in Requests, OnResourceRedirect(r)
  PROVE  RowsSafe'
<1>1. PICK ts2, nt2, cl2, ft2 : ts2 = tasks' /\ nt2 = net' /\ cl2 = clients' /\ ft2 = fate'
  OBVIOUS
<1>2. PICK url : /\ Post(<<Delivery(Event(r, "Redirect", url, 302, NoError))>>)
                 /\ Fate(r, "open", url)
                 /\ net' = [net EXCEPT ![r] = [at |-> "starting", url |-> url, hops |-> 1]]
  BY DEF OnResourceRedirect
<1>3. PICK x : x = IdOf(clients, r)
  OBVIOUS
<1>e. PICK e : e = Event(r, "Redirect", url, 302, NoError)
  OBVIOUS
<1>4. RowsAgree(trace.events, tasks, net, clients, fate, log) /\ IsTasks(tasks)
      /\ ClientsSafe(net, clients, fate)
  BY DEF RowsSafe, RowsAgree, UiSafe
<1>5. TraceRequestId(r) = x /\ Remembering(r) = RememberedBy(clients, r)
  BY <1>3, IdsOfClients
<1>6. /\ ts2 = tasks \o <<Delivery(e)>> /\ log' = log
      /\ ft2 = With(fate, x, [end |-> "open", url |-> url])
      /\ cl2 = RememberedBy(clients, r)
      /\ nt2 = [net EXCEPT ![r] = [at |-> "starting", url |-> url, hops |-> 1]]
      /\ trace' = trace
  BY <1>1, <1>2, <1>e, <1>5 DEF OnResourceRedirect, Post, Fate, uiVars
<1>7. IsEvent(e) /\ TellsOf(e, x, url, net[r].url)
  BY <1>e, <1>5, EventProperties DEF Final, TellsOf
<1>8. ts2 = Append(tasks, Delivery(e))
  BY <1>4, <1>6, <1>7, OnePosted
<1>9. Goes(net, nt2, clients, cl2, fate, ft2, r, url)
  <2>1. NetMoved(net, nt2, r, "starting", url)
    BY <1>4, <1>6, NetMoves
  <2>2. Became(fate, ft2, x, "open", url)
    BY <1>6, WithBecomes
  <2> QED BY <1>3, <1>6, <2>1, <2>2 DEF Goes, NetMoved
<1>10. RowsAgree(trace.events, ts2, nt2, cl2, ft2, log)
  <2>1. PICK lg2 : lg2 = log
    OBVIOUS
  <2>2. LogGoes(log, lg2, x)
    BY <2>1 DEF LogGoes
  <2>3. RowsAgree(trace.events, ts2, nt2, cl2, ft2, lg2)
    BY <1>3, <1>4, <1>7, <1>8, <1>9, <2>1, <2>2, RequestGoes
  <2> QED BY <2>1, <2>3
<1> QED BY <1>1, <1>6, <1>10 DEF RowsSafe

\* It is answered.
LEMMA ResponseKeepsRows ==
  ASSUME UiSafe, RowsSafe, NEW r \in Requests, OnResourceResponse(r)
  PROVE  RowsSafe'
<1>1. PICK ts2, nt2, cl2 : ts2 = tasks' /\ nt2 = net' /\ cl2 = clients'
  OBVIOUS
<1>2. PICK s : Post(<<Delivery(Event(r, "Response", net[r].url, s, NoError))>>)
  BY DEF OnResourceResponse
<1>3. PICK url, x, e : /\ url = net[r].url /\ x = IdOf(clients, r)
                       /\ e = Event(r, "Response", url, s, NoError)
  OBVIOUS
<1>4. RowsAgree(trace.events, tasks, net, clients, fate, log) /\ IsTasks(tasks)
      /\ ClientsSafe(net, clients, fate)
  BY DEF RowsSafe, RowsAgree, UiSafe
<1>5. TraceRequestId(r) = x /\ Remembering(r) = RememberedBy(clients, r)
  BY <1>3, IdsOfClients
<1>6. /\ ts2 = tasks \o <<Delivery(e)>> /\ log' = log /\ fate' = fate
      /\ cl2 = RememberedBy(clients, r) /\ nt2 = [net EXCEPT ![r].at = "answered"]
      /\ trace' = trace /\ net[r].at = "loading"
  BY <1>1, <1>2, <1>3, <1>5 DEF OnResourceResponse, Post, uiVars
<1>7. IsEvent(e) /\ TellsOf(e, x, url, net[r].url)
  BY <1>3, <1>5, EventProperties DEF Final, TellsOf
<1>8. ts2 = Append(tasks, Delivery(e))
  BY <1>4, <1>6, <1>7, OnePosted
<1>9. Goes(net, nt2, clients, cl2, fate, fate, r, url)
  <2>1. NetMoved(net, nt2, r, "answered", url)
    BY <1>3, <1>4, <1>6, NetMoves
  <2>2. r \in DOMAIN clients[TabOfRequest[r]].ids
    BY <1>4, <1>6 DEF ClientsSafe
  <2>3. x \in DOMAIN fate /\ fate[x].end = "open" /\ fate[x].url = url
    BY <1>3, <1>4, <2>2, IdProperties
  <2>4. Became(fate, fate, x, "open", url)
    BY <2>3 DEF Became
  <2> QED BY <1>3, <1>6, <2>1, <2>4 DEF Goes, NetMoved
<1>10. RowsAgree(trace.events, ts2, nt2, cl2, fate, log)
  <2>1. PICK lg2, ft2 : lg2 = log /\ ft2 = fate
    OBVIOUS
  <2>2. LogGoes(log, lg2, x)
    BY <2>1 DEF LogGoes
  <2>3. RowsAgree(trace.events, ts2, nt2, cl2, ft2, lg2)
    BY <1>3, <1>4, <1>7, <1>8, <1>9, <2>1, <2>2, RequestGoes
  <2> QED BY <2>1, <2>3
<1> QED BY <1>1, <1>6, <1>10 DEF RowsSafe

\* Its end is reported.
LEMMA CompleteKeepsRows ==
  ASSUME UiSafe, RowsSafe, NEW r \in Requests, OnResourceLoadComplete(r)
  PROVE  RowsSafe'
<1>1. PICK ts2, nt2, cl2, ft2 : ts2 = tasks' /\ nt2 = net' /\ cl2 = clients' /\ ft2 = fate'
  OBVIOUS
<1>2. PICK kind \in {"Finished", "Failed"} :
        /\ Post(<<Delivery(Event(r, kind, net[r].url, NoStatus,
                                 IF kind = "Failed" THEN "net" ELSE NoError))>>)
        /\ Fate(r, IF kind = "Finished" THEN "finished" ELSE "net", net[r].url)
  BY DEF OnResourceLoadComplete
<1>3. PICK url, x, e, end, error :
        /\ url = net[r].url /\ x = IdOf(clients, r) /\ e = Event(r, kind, url, NoStatus, error)
        /\ end = (IF kind = "Finished" THEN "finished" ELSE "net")
        /\ error = (IF kind = "Failed" THEN "net" ELSE NoError)
  OBVIOUS
<1>4. RowsAgree(trace.events, tasks, net, clients, fate, log) /\ IsTasks(tasks)
      /\ ClientsSafe(net, clients, fate)
  BY DEF RowsSafe, RowsAgree, UiSafe
<1>5. TraceRequestId(r) = x
      /\ Forgetting(r) = [RememberedBy(clients, r) EXCEPT ![TabOfRequest[r]].ids =
                            [q \in DOMAIN @ \ {r} |-> @[q]]]
  BY <1>3, IdsOfClients
<1>6. /\ ts2 = tasks \o <<Delivery(e)>> /\ log' = log
      /\ ft2 = With(fate, x, [end |-> end, url |-> url])
      /\ cl2 = Forgetting(r) /\ nt2 = [net EXCEPT ![r].at = "over"] /\ trace' = trace
  BY <1>1, <1>2, <1>3, <1>5 DEF OnResourceLoadComplete, Post, Fate, uiVars
<1>7. IsEvent(e) /\ e.id = x /\ e.url = url /\ e.kind = kind /\ e.error = error
  BY <1>3, <1>5, EventProperties
<1>8. /\ end \notin Refused /\ end \in {"finished", "net"}
      /\ end = "finished" => e.kind = "Finished"
      /\ end = "net" => e.kind = "Failed" /\ e.error = end
  BY <1>2, <1>3, <1>7 DEF Refused
<1>9. ts2 = Append(tasks, Delivery(e))
  BY <1>4, <1>6, <1>7, OnePosted
<1>10. Over(net, nt2, clients, cl2, fate, ft2, r, end, url)
  <2>1. NetMoved(net, nt2, r, "over", url)
    BY <1>3, <1>4, <1>6, NetMoves
  <2>2. Became(fate, ft2, x, end, url)
    BY <1>6, WithBecomes
  <2> QED BY <1>3, <1>5, <1>6, <1>8, <2>1, <2>2 DEF Over, NetMoved
<1>11. RowsAgree(trace.events, ts2, nt2, cl2, ft2, log)
  <2>1. url = net[r].url /\ x = IdOf(clients, r)
    BY <1>3
  <2>2. IsEvent(e) /\ e.id = x /\ e.url = url
    BY <1>7
  <2> QED BY <1>4, <1>8, <1>9, <1>10, <2>1, <2>2, RequestEnds, ZenonT(60), SMTT(40)
<1> QED BY <1>1, <1>6, <1>11 DEF RowsSafe

\* The head of the tasks is taken: an event goes to the trace.
LEMMA DeliverKeepsRows ==
  ASSUME UiSafe, RowsSafe, tasks # <<>>, tasks' = Tail(tasks), Head(tasks).kind = "deliver",
         Deliver(Head(tasks).event), Others
  PROVE  RowsSafe'
<1>1. PICK evs, ts2, c, e, s :
        /\ evs = trace.events /\ ts2 = tasks' /\ e = Head(tasks).event /\ c = MaxEvents - 1
        /\ s = Stamped(trace, e)
  OBVIOUS
<1>2. PICK w, evs2 : w = Newest(evs, c) /\ evs2 = Append(w, s)
  OBVIOUS
<1>3. trace' = Add(trace, e) /\ UNCHANGED <<net, clients, fate, log>>
  BY <1>1 DEF Deliver, Others
<1>4. trace'.events = evs2
  BY <1>1, <1>2, <1>3 DEF Add
<1>5. IsEvents(evs) /\ HistorySafe(EventsOf(evs, tasks), fate) /\ IsTasks(tasks)
  BY <1>1 DEF RowsSafe, RowsAgree, UiSafe
<1>6. Head(tasks) = tasks[1] /\ Len(tasks) \in Nat \ {0}
  BY <1>1, <1>5, TaskTaken
<1>7. tasks[1].kind = "deliver" /\ tasks[1].event = e /\ IsEvent(e)
  <2>1. 1 \in 1 .. Len(tasks)
    BY <1>6
  <2> QED BY <1>1, <1>5, <1>6, <2>1 DEF IsTasks
<1>8. s.id = e.id /\ s.kind = e.kind /\ s.url = e.url /\ s.error = e.error /\ IsEvent(s)
  BY <1>1, <1>7 DEF Stamped, IsEvent
<1>9. PICK T : evs \in Seq(T)
  BY <1>5 DEF IsEvents
<1>10. c \in Nat
  BY <1>1, TraceAssumption
<1>11. /\ w \in Seq(T) /\ Len(w) \in Nat /\ Len(w) <= c /\ Len(evs) \in Nat
       /\ \E d \in Nat : IsNewest(evs, w, c, d)
  BY <1>2, <1>9, <1>10, NewestProperties
<1>12. PICK d \in Nat : /\ Len(evs) = Len(w) + d
                        /\ \A i \in 1 .. Len(w) : w[i] = evs[i + d]
  BY <1>11 DEF IsNewest
<1>13. /\ evs2 \in Seq(T \cup {s}) /\ Len(evs2) = Len(w) + 1 /\ evs2[Len(w) + 1] = s
       /\ \A i \in 1 .. Len(w) : evs2[i] = w[i]
  BY <1>2, <1>11
<1>14. IsEvents(evs2)
  <2>1. \A i \in 1 .. Len(w) : i + d \in 1 .. Len(evs)
    BY <1>11, <1>12
  <2>2. \A i \in 1 .. Len(w) + 1 : i \in 1 .. Len(w) \/ i = Len(w) + 1
    BY <1>11
  <2>3. \A i \in 1 .. Len(w) + 1 : IsEvent(evs2[i])
    BY <1>5, <1>8, <1>12, <1>13, <2>1, <2>2 DEF IsEvents
  <2> QED BY <1>13, <2>3 DEF IsEvents
<1>15. /\ d <= Len(evs) /\ Len(evs) - d = Len(w) /\ Len(evs2) = Len(evs) - d + 1
       /\ \A i \in 1 .. Len(evs) - d : evs2[i] = evs[i + d]
  <2>1. d <= Len(evs) /\ Len(evs) - d = Len(w) /\ Len(evs2) = Len(evs) - d + 1
    BY <1>11, <1>12, <1>13
  <2> QED BY <1>12, <1>13, <2>1
<1>16. evs2[Len(evs2)] = s
  BY <1>13
<1>17. HistorySafe(EventsOf(evs2, ts2), fate)
  <2>1. /\ tasks[1].kind = "deliver" /\ Len(evs2) = Len(evs) - d + 1
        /\ evs2[Len(evs2)].id = tasks[1].event.id
        /\ evs2[Len(evs2)].kind = tasks[1].event.kind
        /\ evs2[Len(evs2)].url = tasks[1].event.url
        /\ evs2[Len(evs2)].error = tasks[1].event.error
    BY <1>7, <1>8, <1>15, <1>16
  <2>2. TakenTo(evs, evs2, d, tasks[1])
    BY <1>15, <2>1 DEF TakenTo
  <2> QED BY <1>1, <1>5, <1>14, <2>2, TraceMoves
<1>18. ClientsSafe(net, clients, fate) /\ LogSafe(log, fate)
  BY DEF RowsSafe, RowsAgree
<1>19. RowsAgree(evs2, ts2, net, clients, fate, log)
  BY <1>14, <1>17, <1>18 DEF RowsAgree
<1> QED BY <1>1, <1>3, <1>4, <1>19 DEF RowsSafe

\* Or a press clears the trace or leaves it.
LEMMA HandleActionKeepsRows ==
  ASSUME UiSafe, RowsSafe, tasks # <<>>, tasks' = Tail(tasks), Head(tasks).kind # "deliver",
         HandleAction(Head(tasks)), Others
  PROVE  RowsSafe'
<1>1. PICK evs, evs2, ts2 : evs = trace.events /\ evs2 = trace'.events /\ ts2 = tasks'
  OBVIOUS
<1>2. UNCHANGED <<net, clients, fate, log>>
  BY DEF Others
<1>3. evs2 = evs \/ evs2 = <<>>
  <2>1. PICK press : press = Head(tasks)
    OBVIOUS
  <2>2. CASE press.action = "Close"
    <3>1. trace' = trace
      BY <2>1, <2>2 DEF HandleAction
    <3> QED BY <1>1, <3>1
  <2>3. CASE press.action = "Clear"
    <3>1. trace' = Clear(trace)
      BY <2>1, <2>3 DEF HandleAction
    <3> QED BY <1>1, <3>1 DEF Clear, EmptyTrace
  <2>4. CASE press.action \notin {"Close", "Clear"}
    <3>1. trace' = trace
      BY <2>1, <2>4, ZenonT(60) DEF HandleAction
    <3> QED BY <1>1, <3>1
  <2> QED BY <2>2, <2>3, <2>4
<1>4. IsEvents(evs) /\ HistorySafe(EventsOf(evs, tasks), fate) /\ IsTasks(tasks)
  BY <1>1 DEF RowsSafe, RowsAgree, UiSafe
<1>5. Head(tasks) = tasks[1]
  BY <1>1, <1>4, TaskTaken
<1>6. Len(evs) \in Nat
  BY <1>4 DEF IsEvents
<1>7. IsEvents(evs2)
  <2>1. <<>> \in Seq({}) /\ \A i \in 1 .. Len(<<>>) : FALSE
    OBVIOUS
  <2>2. IsEvents(<<>>)
    BY <2>1 DEF IsEvents
  <2> QED BY <1>3, <1>4, <2>2
<1>8. PICK d \in Nat : TakenTo(evs, evs2, d, tasks[1])
  <2>1. tasks[1].kind # "deliver"
    BY <1>5
  <2>2. CASE evs2 = evs
    <3>1. 0 \in Nat /\ 0 <= Len(evs) /\ Len(evs) - 0 = Len(evs)
          /\ \A i \in 1 .. Len(evs) : i + 0 = i
      BY <1>6
    <3>2. TakenTo(evs, evs2, 0, tasks[1])
      BY <2>1, <2>2, <3>1 DEF TakenTo
    <3> QED BY <3>1, <3>2
  <2>3. CASE evs2 = <<>>
    <3>1. Len(evs2) = 0 /\ Len(evs) - Len(evs) = 0 /\ Len(evs) <= Len(evs) /\ \A i \in 1 .. 0 : FALSE
      BY <1>6, <2>3
    <3>2. TakenTo(evs, evs2, Len(evs), tasks[1])
      BY <2>1, <3>1 DEF TakenTo
    <3> QED BY <1>6, <3>2
  <2> QED BY <1>3, <2>2, <2>3
<1>9. HistorySafe(EventsOf(evs2, ts2), fate)
  BY <1>1, <1>4, <1>7, <1>8, TraceMoves
<1>10. ClientsSafe(net, clients, fate) /\ LogSafe(log, fate)
  BY DEF RowsSafe, RowsAgree
<1>11. RowsAgree(evs2, ts2, net, clients, fate, log)
  BY <1>7, <1>9, <1>10 DEF RowsAgree
<1> QED BY <1>1, <1>2, <1>11 DEF RowsSafe

LEMMA PressKeepsRows ==
  ASSUME UiSafe, RowsSafe, PressPanel
  PROVE  RowsSafe'
<1>1. PICK x : tasks' = Append(tasks, x) /\ x.kind = "press"
  BY DEF PressPanel
<1>2. PICK ts2 : ts2 = tasks'
  OBVIOUS
<1>3. UNCHANGED <<trace, net, clients, fate, log>>
  BY DEF PressPanel, Gesture, Others
<1>4. RowsAgree(trace.events, tasks, net, clients, fate, log) /\ IsTasks(tasks)
      /\ IsEvents(trace.events)
  BY DEF RowsSafe, RowsAgree, UiSafe
<1>5. EventsOf(trace.events, ts2) = EventsOf(trace.events, tasks)
  BY <1>1, <1>2, <1>4, PressPosted
<1>6. RowsAgree(trace.events, ts2, net, clients, fate, log)
  BY <1>4, <1>5 DEF RowsAgree
<1> QED BY <1>2, <1>3, <1>6 DEF RowsSafe

LEMMA RowsInit ==
  ASSUME TraceInit
  PROVE  RowsSafe
<1>1. /\ net = [r \in Requests |-> [at |-> "none", url |-> CHOOSE u \in UrlsOf[r] : TRUE, hops |-> 0]]
      /\ clients = [t \in Tabs |-> [next |-> 1, ids |-> <<>>]]
      /\ fate = <<>> /\ tasks = <<>> /\ trace.events = <<>> /\ log = <<>>
  BY DEF TraceInit, EmptyTrace
<1>2. DOMAIN <<>> = {} /\ Len(<<>>) = 0 /\ <<>> \in Seq({}) /\ 1 .. 0 = {}
  OBVIOUS
<1>3. IsEvents(<<>>) /\ LogSafe(<<>>, <<>>)
  BY <1>2 DEF IsEvents, LogSafe
<1>4. HistorySafe(EventsOf(<<>>, <<>>), <<>>)
  <2>1. DOMAIN EventsOf(<<>>, <<>>) = {}
    BY <1>2 DEF EventsOf
  <2> QED BY <2>1 DEF HistorySafe
<1>5. ClientsSafe(net, clients, <<>>)
  <2>1. \A r \in Requests : net[r] = [at |-> net[r].at, url |-> net[r].url, hops |-> net[r].hops]
                            /\ net[r].at = "none"
    BY <1>1
  <2>2. \A t \in Tabs : clients[t] = [next |-> clients[t].next, ids |-> clients[t].ids]
                        /\ clients[t].next = 1 /\ clients[t].ids = <<>>
    BY <1>1
  <2>3. net = [r \in Requests |-> net[r]] /\ clients = [t \in Tabs |-> clients[t]]
    BY <1>1
  <2>4. \A r \in Requests : DOMAIN clients[TabOfRequest[r]].ids = {}
    BY <1>2, <2>2, TabOfRequestAssumption
  <2> QED BY <1>2, <2>1, <2>2, <2>3, <2>4 DEF ClientsSafe
<1> QED BY <1>1, <1>3, <1>4, <1>5 DEF RowsSafe, RowsAgree

\* Every step keeps it.
LEMMA RowsNext ==
  ASSUME UiSafe, RowsSafe, [TraceNext]_traceVars
  PROVE  RowsSafe'
<1>1. ASSUME NEW r \in Requests, Begin(r) PROVE RowsSafe'
  BY <1>1, BeginKeepsRows
<1>2. ASSUME NEW r \in Requests, OnBeforeResourceLoad(r) PROVE RowsSafe'
  BY <1>2, BeforeLoadKeepsRows
<1>3. ASSUME NEW r \in Requests, OnResourceRedirect(r) PROVE RowsSafe'
  BY <1>3, RedirectKeepsRows
<1>4. ASSUME NEW r \in Requests, OnResourceResponse(r) PROVE RowsSafe'
  BY <1>4, ResponseKeepsRows
<1>5. ASSUME NEW r \in Requests, OnResourceLoadComplete(r) PROVE RowsSafe'
  BY <1>5, CompleteKeepsRows
<1>6. CASE RunTask
  BY <1>6, DeliverKeepsRows, HandleActionKeepsRows DEF RunTask
<1>7. CASE PressPanel
  BY <1>7, PressKeepsRows
<1>8. CASE Toggle \/ ToggleLiveTraceRecording \/ SwitchProfile \/ UNCHANGED traceVars
  <2>1. UNCHANGED <<trace, tasks, net, clients, fate, log>>
    BY <1>8 DEF Toggle, ToggleLiveTraceRecording, SwitchProfile, Gesture, Others, traceVars
  <2> QED BY <2>1 DEF RowsSafe
<1> QED BY <1>1, <1>2, <1>3, <1>4, <1>5, <1>6, <1>7, <1>8 DEF TraceNext

LEMMA RowsStaySafe == TraceSpec => [](UiSafe /\ RowsSafe)
<1>1. TraceInit => RowsSafe
  BY RowsInit
<1>2. UiSafe /\ RowsSafe /\ [TraceNext]_traceVars => RowsSafe'
  BY RowsNext
<1> QED BY <1>1, <1>2, UiStaysSafe, PTL DEF TraceSpec

-----------------------------------------------------------------------------
\* The summary of the events, one row per request.

\* One step of the recursion AggregateRequests is defined by.
SummaryStep(evs, g, i) ==
  IF i = 0 THEN <<>>
  ELSE IF evs[i].tab \in Tabs THEN Summarised(g[i - 1], evs[i])
  ELSE g[i - 1]

IsSummary(evs, g) == g = [i \in 0 .. Len(evs) |-> SummaryStep(evs, g, i)]

LEMMA SummaryExists ==
  ASSUME NEW evs, Len(evs) \in Nat
  PROVE  \E g : IsSummary(evs, g)
<1> DEFINE IsUpTo(n, g) == g = [i \in 0 .. n |-> SummaryStep(evs, g, i)]
           Bad == {n \in 0 .. Len(evs) : ~ \E g : IsUpTo(n, g)}
<1>1. SUFFICES ASSUME Bad # {} PROVE FALSE
  BY DEF IsSummary
<1>2. PICK m \in Bad : \A y \in Bad : m <= y
  <2>1. Bad \in SUBSET Nat
    OBVIOUS
  <2> QED BY <1>1, <2>1, LeastElement
<1>3. CASE m = 0
  <2> DEFINE h == [i \in 0 .. 0 |-> <<>>]
  <2>1. h = [i \in 0 .. 0 |-> SummaryStep(evs, h, i)]
    BY DEF SummaryStep
  <2> QED BY <1>2, <1>3, <2>1
<1>4. CASE m # 0
  <2>1. PICK g : IsUpTo(m - 1, g)
    BY <1>2, <1>4
  <2> DEFINE h == [i \in 0 .. m |-> IF i = m THEN SummaryStep(evs, g, m) ELSE g[i]]
  <2>2. m \in Nat \ {0}
    BY <1>2, <1>4
  <2>3. \A i \in 0 .. m : h[i] = SummaryStep(evs, h, i)
    <3> SUFFICES ASSUME NEW i \in 0 .. m PROVE h[i] = SummaryStep(evs, h, i)
      OBVIOUS
    <3>1. i # 0 => h[i - 1] = g[i - 1]
      BY <2>2
    <3>2. SummaryStep(evs, h, i) = SummaryStep(evs, g, i)
      BY <3>1 DEF SummaryStep
    <3>3. i # m => g[i] = SummaryStep(evs, g, i)
      BY <2>1, <2>2
    <3> QED BY <3>2, <3>3
  <2>4. h = [i \in 0 .. m |-> SummaryStep(evs, h, i)]
    BY <2>3
  <2>5. m \in 0 .. Len(evs)
    BY <1>2
  <2> QED BY <1>2, <2>4, <2>5
<1> QED BY <1>3, <1>4

\* What HistorySafe says of the events of the trace.
TrailSafe(evs) ==
  \A i, j \in 1 .. Len(evs) : i < j /\ evs[i].id = evs[j].id =>
    /\ ~Final(evs[i])
    /\ (\A k \in 1 .. Len(evs) : i < k /\ k < j => evs[k].id # evs[i].id)
         => evs[j].kind = "Redirect" \/ evs[i].url = evs[j].url

LEMMA TrailIsSafe ==
  ASSUME NEW evs, IsEvents(evs), NEW ts, IsTasks(ts), NEW ft, NEW ev, ev = EventsOf(evs, ts),
         HistorySafe(ev, ft)
  PROVE  /\ TrailSafe(evs)
         /\ \A i \in 1 .. Len(evs) : i \in DOMAIN ev /\ ev[i] = evs[i]
         /\ \A i \in DOMAIN ev : /\ i \in Nat /\ i >= 1
                                 /\ i > Len(evs) => /\ i - Len(evs) \in 1 .. Len(ts)
                                                    /\ ts[i - Len(evs)].kind = "deliver"
                                                    /\ ev[i] = ts[i - Len(evs)].event
<1>1. PICK m, l : m = Len(evs) /\ l = Len(ts) /\ m \in Nat /\ l \in Nat
  <2>1. Len(evs) \in Nat
    BY DEF IsEvents
  <2>2. Len(ts) \in Nat
    BY DEF IsTasks
  <2> QED BY <2>1, <2>2
<1> DEFINE D == {j \in 1 .. m + l : j <= m \/ ts[j - m].kind = "deliver"}
<1>2. ev = [i \in D |-> IF i <= m THEN evs[i] ELSE ts[i - m].event]
  BY <1>1 DEF EventsOf
<1>3. \A i \in 1 .. m : i \in D /\ i <= m
  BY <1>1
<1>4. ASSUME NEW i \in D
      PROVE  /\ i \in Nat /\ i >= 1
             /\ i > m => i - m \in 1 .. l /\ ts[i - m].kind = "deliver" /\ ~(i <= m)
  BY <1>1
<1> HIDE DEF D
<1>5. \A i \in 1 .. m : i \in DOMAIN ev /\ ev[i] = evs[i]
  BY <1>2, <1>3
<1>6. \A i \in DOMAIN ev : i \in Nat /\ i >= 1 /\ (i > m => /\ i - m \in 1 .. l
                             /\ ts[i - m].kind = "deliver" /\ ev[i] = ts[i - m].event)
  BY <1>2, <1>4
<1>7. ASSUME NEW i \in 1 .. m, NEW j \in 1 .. m, i < j, evs[i].id = evs[j].id
      PROVE  /\ ~Final(evs[i])
             /\ (\A k \in 1 .. m : i < k /\ k < j => evs[k].id # evs[i].id)
                  => evs[j].kind = "Redirect" \/ evs[i].url = evs[j].url
  <2>1. i \in DOMAIN ev /\ j \in DOMAIN ev /\ ev[i] = evs[i] /\ ev[j] = evs[j]
    BY <1>5
  <2>2. /\ ~Final(ev[i])
        /\ (\A k \in DOMAIN ev : i < k /\ k < j => ev[k].id # ev[i].id)
             => ev[j].kind = "Redirect" \/ ev[i].url = ev[j].url
    BY <1>7, <2>1 DEF HistorySafe
  <2>3. ASSUME \A k \in 1 .. m : i < k /\ k < j => evs[k].id # evs[i].id,
               NEW k \in DOMAIN ev, i < k, k < j
        PROVE  ev[k].id # ev[i].id
    <3>1. k \in 1 .. m
      BY <1>1, <1>6, <2>3
    <3> QED BY <1>5, <2>1, <2>3, <3>1
  <2> QED BY <2>1, <2>2, <2>3
<1>8. TrailSafe(evs)
  BY <1>1, <1>7 DEF TrailSafe
<1> QED BY <1>1, <1>5, <1>6, <1>8

\* A row tells of event j, the last one of its request among the first n.
RowTells(row, evs, n, j) ==
  /\ row = [id |-> row.id, tab |-> row.tab, url |-> row.url, status |-> row.status,
            error |-> row.error, state |-> row.state, blocked |-> row.blocked, layer |-> row.layer]
  /\ row.blocked = FALSE
  /\ j \in 1 .. n /\ row.id = evs[j].id
  /\ \A k \in 1 .. n : j < k => evs[k].id # evs[j].id
  /\ row.url = evs[j].url /\ row.state = StateAfter(evs[j].kind, "Active")
  /\ evs[j].kind = "Failed" => row.error = evs[j].error

RowsTell(rows, evs, n) ==
  /\ \E T : rows \in Seq(T)
  /\ \A k \in 1 .. Len(rows) : \E j \in 1 .. n : RowTells(rows[k], evs, n, j)

LEMMA RowIsNew ==
  ASSUME NEW evs, NEW n \in Nat \ {0}, NEW row, row = NewRow(evs[n])
  PROVE  RowTells(row, evs, n, n)
<1>1. PICK e : e = evs[n]
  OBVIOUS
<1>2. row = [id |-> e.id, tab |-> e.tab, url |-> e.url, status |-> e.status, error |-> e.error,
             state |-> StateAfter(e.kind, "Active"), blocked |-> FALSE, layer |-> "none"]
  BY <1>1 DEF NewRow
<1>3. /\ row.id = e.id /\ row.tab = e.tab /\ row.url = e.url /\ row.status = e.status
      /\ row.error = e.error /\ row.state = StateAfter(e.kind, "Active") /\ row.layer = "none"
      /\ row.blocked = FALSE
  BY <1>2
<1>4. row = [id |-> row.id, tab |-> row.tab, url |-> row.url, status |-> row.status,
             error |-> row.error, state |-> row.state, blocked |-> row.blocked, layer |-> row.layer]
  BY <1>2, <1>3
<1> QED BY <1>1, <1>3, <1>4 DEF RowTells

\* A row goes on to tell of event n, the next one of its request.
LEMMA RowGoesOn ==
  ASSUME NEW evs, TrailSafe(evs), Len(evs) \in Nat, NEW n \in 1 .. Len(evs),
         NEW old, NEW j, RowTells(old, evs, n - 1, j), old.id = evs[n].id,
         NEW row, row = UpdatedRow(old, evs[n])
  PROVE  RowTells(row, evs, n, n)
<1>1. PICK e : e = evs[n]
  OBVIOUS
<1>2. /\ old = [id |-> old.id, tab |-> old.tab, url |-> old.url, status |-> old.status,
                error |-> old.error, state |-> old.state, blocked |-> old.blocked,
                layer |-> old.layer]
      /\ old.blocked = FALSE
      /\ j \in 1 .. n - 1 /\ old.id = evs[j].id
      /\ \A k \in 1 .. n - 1 : j < k => evs[k].id # evs[j].id
      /\ old.url = evs[j].url /\ old.state = StateAfter(evs[j].kind, "Active")
  BY DEF RowTells
<1> DEFINE u == IF e.kind = "Redirect" THEN e.url ELSE old.url
           s == IF e.status = NoStatus THEN old.status ELSE e.status
           x == IF e.kind = "Failed" THEN e.error ELSE old.error
           f == StateAfter(e.kind, old.state)
<1>3. row = [old EXCEPT !.tab = e.tab, !.url = u, !.status = s, !.state = f, !.error = x]
  BY <1>1 DEF UpdatedRow
<1>4. u = (IF e.kind = "Redirect" THEN e.url ELSE old.url)
      /\ x = (IF e.kind = "Failed" THEN e.error ELSE old.error)
      /\ f = StateAfter(e.kind, old.state)
  OBVIOUS
<1> HIDE DEF u, s, x, f
<1>5. row = [id |-> old.id, tab |-> e.tab, url |-> u, status |-> s, error |-> x, state |-> f,
             blocked |-> old.blocked, layer |-> old.layer]
  BY <1>2, <1>3
<1>6. /\ row.id = old.id /\ row.tab = e.tab /\ row.url = u /\ row.status = s /\ row.error = x
      /\ row.state = f /\ row.layer = old.layer /\ row.blocked = old.blocked
  BY <1>5
<1>7. row = [id |-> row.id, tab |-> row.tab, url |-> row.url, status |-> row.status,
             error |-> row.error, state |-> row.state, blocked |-> row.blocked, layer |-> row.layer]
  BY <1>5, <1>6
<1>8. j \in 1 .. Len(evs) /\ j < n /\ evs[j].id = evs[n].id
  BY <1>2
<1>9. ~Final(evs[j]) /\ (e.kind = "Redirect" \/ evs[j].url = e.url)
  <2>1. \A k \in 1 .. Len(evs) : j < k /\ k < n => evs[k].id # evs[j].id
    BY <1>2, <1>8
  <2> QED BY <1>1, <1>8, <2>1 DEF TrailSafe
<1>10. u = e.url
  BY <1>2, <1>4, <1>9
<1>11. f = StateAfter(e.kind, "Active")
  <2>1. old.state = "Active"
    BY <1>2, <1>9 DEF Final, StateAfter
  <2> QED BY <1>4, <2>1
<1>12. n \in 1 .. n /\ \A k \in 1 .. n : ~(n < k)
  OBVIOUS
<1> QED BY <1>1, <1>2, <1>4, <1>6, <1>7, <1>10, <1>11, <1>12 DEF RowTells

\* And what it told stays so after an event of another one.
LEMMA RowStays ==
  ASSUME NEW evs, NEW n \in Nat \ {0}, NEW row, NEW j, RowTells(row, evs, n - 1, j),
         row.id # evs[n].id
  PROVE  RowTells(row, evs, n, j)
<1>1. j \in 1 .. n - 1 /\ row.id = evs[j].id
      /\ \A k \in 1 .. n - 1 : j < k => evs[k].id # evs[j].id
  BY DEF RowTells
<1>2. \A k \in 1 .. n : k \in 1 .. n - 1 \/ k = n
  OBVIOUS
<1>3. \A k \in 1 .. n : j < k => evs[k].id # evs[j].id
  BY <1>1, <1>2
<1> QED BY <1>1, <1>3 DEF RowTells

LEMMA RowsSummarised ==
  ASSUME NEW evs, TrailSafe(evs), Len(evs) \in Nat, NEW n \in 1 .. Len(evs),
         NEW rows, RowsTell(rows, evs, n - 1), NEW rows2, rows2 = Summarised(rows, evs[n])
  PROVE  RowsTell(rows2, evs, n)
<1>1. PICK T : rows \in Seq(T)
  BY DEF RowsTell
<1>2. PICK e, l : e = evs[n] /\ l = Len(rows) /\ l \in Nat /\ DOMAIN rows = 1 .. l
  BY <1>1
<1>3. n \in Nat \ {0} /\ n \in 1 .. n /\ \A j \in 1 .. n - 1 : j \in 1 .. n
  OBVIOUS
<1>4. ASSUME NEW k \in 1 .. l PROVE \E j \in 1 .. n - 1 : RowTells(rows[k], evs, n - 1, j)
  BY <1>2 DEF RowsTell
<1>5. ASSUME NEW k \in 1 .. l, rows[k].id # e.id
      PROVE  \E j \in 1 .. n : RowTells(rows[k], evs, n, j)
  <2>1. PICK j \in 1 .. n - 1 : RowTells(rows[k], evs, n - 1, j)
    BY <1>4
  <2>2. RowTells(rows[k], evs, n, j)
    BY <1>2, <1>3, <1>5, <2>1, RowStays
  <2> QED BY <1>3, <2>2
<1>6. CASE \E k \in 1 .. l : rows[k].id = e.id
  <2>1. rows2 = [k \in 1 .. l |-> IF rows[k].id = e.id THEN UpdatedRow(rows[k], e) ELSE rows[k]]
    BY <1>2, <1>6 DEF Summarised
  <2>2. rows2 \in Seq({rows2[k] : k \in 1 .. l}) /\ Len(rows2) = l
    BY <1>2, <2>1
  <2>3. ASSUME NEW k \in 1 .. l
        PROVE  \E j \in 1 .. n : RowTells(rows2[k], evs, n, j)
    <3>1. CASE rows[k].id = e.id
      <4>1. PICK j \in 1 .. n - 1 : RowTells(rows[k], evs, n - 1, j)
        BY <1>4
      <4>2. PICK row, old : row = rows2[k] /\ old = rows[k]
        OBVIOUS
      <4>3. row = UpdatedRow(old, evs[n])
        BY <1>2, <2>1, <3>1, <4>2
      <4>4. RowTells(row, evs, n, n)
        BY <1>2, <3>1, <4>1, <4>2, <4>3, RowGoesOn
      <4> QED BY <1>3, <4>2, <4>4
    <3>2. CASE rows[k].id # e.id
      <4>1. rows2[k] = rows[k]
        BY <2>1, <3>2
      <4> QED BY <1>5, <3>2, <4>1
    <3> QED BY <3>1, <3>2
  <2> QED BY <2>2, <2>3 DEF RowsTell
<1>7. CASE ~ \E k \in 1 .. l : rows[k].id = e.id
  <2>1. PICK row : row = NewRow(e)
    OBVIOUS
  <2>2. rows2 = Append(rows, row)
    BY <1>2, <1>7, <2>1 DEF Summarised
  <2>3. rows2 \in Seq(T \cup {row}) /\ Len(rows2) = l + 1 /\ rows2[l + 1] = row
        /\ \A k \in 1 .. l : rows2[k] = rows[k]
    BY <1>1, <1>2, <2>2
  <2>4. RowTells(row, evs, n, n)
    BY <1>2, <1>3, <2>1, RowIsNew
  <2>5. \A k \in 1 .. l + 1 : k \in 1 .. l \/ k = l + 1
    BY <1>2
  <2>6. \A k \in 1 .. l + 1 : \E j \in 1 .. n : RowTells(rows2[k], evs, n, j)
    BY <1>3, <1>5, <1>7, <2>3, <2>4, <2>5
  <2> QED BY <2>3, <2>6 DEF RowsTell
<1> QED BY <1>6, <1>7

\* Every row of the summary tells of the last event of its request.
LEMMA SummaryTells ==
  ASSUME NEW evs, IsEvents(evs), TrailSafe(evs), NEW g, IsSummary(evs, g)
  PROVE  RowsTell(g[Len(evs)], evs, Len(evs))
<1>1. Len(evs) \in Nat /\ \A i \in 1 .. Len(evs) : evs[i].tab \in Tabs
  <2>1. Len(evs) \in Nat /\ \A i \in 1 .. Len(evs) : IsEvent(evs[i])
    BY DEF IsEvents
  <2> QED BY <2>1 DEF IsEvent
<1>2. \A i \in 0 .. Len(evs) : g[i] = SummaryStep(evs, g, i)
  BY DEF IsSummary
<1> DEFINE Bad == {n \in 0 .. Len(evs) : ~RowsTell(g[n], evs, n)}
<1>3. SUFFICES ASSUME Bad # {} PROVE FALSE
  BY <1>1
<1>4. PICK m \in Bad : \A y \in Bad : m <= y
  <2>1. Bad \in SUBSET Nat
    BY <1>1
  <2> QED BY <1>3, <2>1, LeastElement
<1>5. m \in 0 .. Len(evs) /\ ~RowsTell(g[m], evs, m)
  OBVIOUS
<1>6. CASE m = 0
  <2>1. g[m] = <<>>
    BY <1>2, <1>5, <1>6 DEF SummaryStep
  <2>2. <<>> \in Seq({}) /\ \A k \in 1 .. Len(<<>>) : FALSE
    OBVIOUS
  <2>3. RowsTell(<<>>, evs, m)
    BY <2>2 DEF RowsTell
  <2> QED BY <1>5, <2>1, <2>3
<1>7. CASE m # 0
  <2>1. m \in 1 .. Len(evs) /\ m - 1 \in 0 .. Len(evs) /\ ~(m <= m - 1)
    BY <1>1, <1>5, <1>7
  <2>2. m - 1 \notin Bad
    BY <1>4, <2>1
  <2>3. RowsTell(g[m - 1], evs, m - 1)
    BY <2>1, <2>2
  <2>4. g[m] = Summarised(g[m - 1], evs[m])
    BY <1>1, <1>2, <1>5, <1>7, <2>1 DEF SummaryStep
  <2>5. PICK rows, rows2 : rows = g[m - 1] /\ rows2 = g[m]
    OBVIOUS
  <2>6. RowsTell(rows2, evs, m)
    BY <1>1, <2>1, <2>3, <2>4, <2>5, RowsSummarised
  <2> QED BY <1>5, <2>5, <2>6
<1> QED BY <1>6, <1>7

-----------------------------------------------------------------------------
\* The rows tell the fate of their requests.

\* i is the newest of the decisions about a request.
NewestAbout(lg, id, i) ==
  i \in 1 .. Len(lg) /\ lg[i].id = id /\ \A j \in 1 .. Len(lg) : i < j => lg[j].id # id

LEMMA DecisionFound ==
  ASSUME NEW T, NEW lg \in Seq(T), NEW id, About(lg, id) # {}
  PROVE  \E i \in 1 .. Len(lg) : NewestAbout(lg, id, i) /\ FindByRequestId(lg, id) = lg[i]
<1>1. PICK n \in Nat : n = Len(lg) /\ DOMAIN lg = 1 .. n
  OBVIOUS
<1> DEFINE A == About(lg, id)
<1>2. \A i : i \in A <=> i \in 1 .. n /\ lg[i].id = id
  BY <1>1 DEF About
<1> HIDE DEF A
<1>3. A # {} /\ FindByRequestId(lg, id) = lg[CHOOSE i \in A : \A j \in A : j <= i]
  BY DEF A, FindByRequestId
<1>4. \E i \in A : \A j \in A : j <= i
  <2> DEFINE U == {k \in 0 .. n : n - k \in A}
  <2>1. U \in SUBSET Nat
    OBVIOUS
  <2>2. U # {}
    <3>1. PICK i \in A : TRUE
      BY <1>3
    <3>2. n - i \in 0 .. n /\ n - (n - i) = i
      BY <1>2, <3>1
    <3> QED BY <3>1, <3>2
  <2>3. PICK k \in U : \A y \in U : k <= y
    BY <2>1, <2>2, LeastElement
  <2>4. k \in 0 .. n /\ n - k \in A
    OBVIOUS
  <2>5. ASSUME NEW j \in A PROVE j <= n - k
    <3>1. j \in 1 .. n /\ n - j \in 0 .. n /\ n - (n - j) = j
      BY <1>2
    <3>2. n - j \in U
      BY <3>1
    <3>3. k <= n - j
      BY <2>3, <3>2
    <3> QED BY <2>4, <3>1, <3>3
  <2> QED BY <2>4, <2>5
<1>5. PICK i : i = CHOOSE h \in A : \A j \in A : j <= h
  OBVIOUS
<1>6. i \in A /\ \A j \in A : j <= i
  BY <1>4, <1>5
<1>7. \A j \in 1 .. n : i < j => lg[j].id # id
  BY <1>2, <1>6
<1>8. NewestAbout(lg, id, i)
  BY <1>1, <1>2, <1>6, <1>7 DEF NewestAbout
<1> QED BY <1>3, <1>5, <1>8 DEF NewestAbout

\* A row says of blocking what the newest decision says.
BlockTold(row, lg) ==
  /\ About(lg, row.id) = {} => row.blocked = FALSE
  /\ About(lg, row.id) # {} =>
       \E i \in 1 .. Len(lg) : NewestAbout(lg, row.id, i) /\ row.blocked = lg[i].blocked

\* A decision changes what a row says of blocking only.
LEMMA DecisionShown ==
  ASSUME NEW T, NEW lg \in Seq(T), NEW old, NEW evs, NEW n, NEW j, RowTells(old, evs, n, j),
         NEW row, row = WithDecision(old, lg)
  PROVE  /\ row.id = old.id /\ row.url = old.url /\ row.state = old.state
         /\ row.error = old.error /\ BlockTold(row, lg)
<1>1. /\ old = [id |-> old.id, tab |-> old.tab, url |-> old.url, status |-> old.status,
                error |-> old.error, state |-> old.state, blocked |-> old.blocked,
                layer |-> old.layer]
      /\ old.blocked = FALSE
  BY DEF RowTells
<1>2. CASE About(lg, old.id) = {}
  BY <1>1, <1>2 DEF WithDecision, BlockTold
<1>3. CASE About(lg, old.id) # {}
  <2>1. PICK i \in 1 .. Len(lg) : NewestAbout(lg, old.id, i) /\ FindByRequestId(lg, old.id) = lg[i]
    BY <1>3, DecisionFound
  <2>2. PICK b, l : b = lg[i].blocked /\ l = lg[i].layer
    OBVIOUS
  <2>3. row = [old EXCEPT !.blocked = b, !.layer = l]
    BY <1>3, <2>1, <2>2 DEF WithDecision
  <2>4. /\ row.id = old.id /\ row.url = old.url /\ row.state = old.state
        /\ row.error = old.error /\ row.blocked = b
    BY <1>1, <2>3
  <2> QED BY <1>3, <2>1, <2>2, <2>4 DEF BlockTold
<1> QED BY <1>2, <1>3

LEMMA RowsAre ==
  ASSUME Len(trace.events) \in Nat
  PROVE  \E g : /\ IsSummary(trace.events, g)
                /\ Rows = [i \in DOMAIN g[Len(trace.events)] |->
                             WithDecision(g[Len(trace.events)][i], log)]
<1> DEFINE f == CHOOSE g : g = [i \in 0 .. Len(trace.events) |-> SummaryStep(trace.events, g, i)]
<1>1. Rows = [i \in DOMAIN f[Len(trace.events)] |-> WithDecision(f[Len(trace.events)][i], log)]
  BY DEF Rows, AggregateRequests, SummaryStep
<1>2. f = [i \in 0 .. Len(trace.events) |-> SummaryStep(trace.events, f, i)]
  BY SummaryExists DEF IsSummary
<1> HIDE DEF f
<1> QED BY <1>1, <1>2 DEF IsSummary

\* What RowsTellFate says of a row.
FateTold(row) ==
  LET end == fate[row.id].end  blocked == end \in {"policy", "filter"} IN
  /\ ~Waiting(row.id) => /\ row.state = StateOf(end)
                         /\ row.url = fate[row.id].url
                         /\ blocked => row.error = end
  /\ row.blocked => blocked
  /\ blocked /\ About(log, row.id) # {} => row.blocked
  /\ blocked /\ Len(log) < LogCapacity => row.blocked

LEMMA RowTellsFate ==
  ASSUME UiSafe, RowsSafe, NEW old, NEW j, NEW row, row = WithDecision(old, log),
         RowTells(old, trace.events, Len(trace.events), j)
  PROVE  FateTold(row)
<1>1. PICK evs, n, ev, x : evs = trace.events /\ n = Len(evs) /\ ev = EventsOf(evs, tasks)
                           /\ x = row.id
  OBVIOUS
<1>2. /\ IsEvents(evs) /\ IsTasks(tasks) /\ HistorySafe(ev, fate)
      /\ ClientsSafe(net, clients, fate) /\ LogSafe(log, fate)
  BY <1>1 DEF RowsSafe, RowsAgree, UiSafe
<1>3. PICK T : log \in Seq(T)
  BY <1>2 DEF LogSafe
<1>4. n \in Nat
  BY <1>1, <1>2 DEF IsEvents
<1>5. /\ row.id = old.id /\ row.url = old.url /\ row.state = old.state /\ row.error = old.error
      /\ BlockTold(row, log)
  BY <1>1, <1>3, DecisionShown
<1>6. PICK e : e = evs[j]
  OBVIOUS
<1>7. /\ j \in 1 .. n /\ x = e.id /\ \A k \in 1 .. n : j < k => evs[k].id # x
      /\ row.url = e.url /\ row.state = StateAfter(e.kind, "Active")
      /\ e.kind = "Failed" => row.error = e.error
  BY <1>1, <1>5, <1>6 DEF RowTells
<1>8. /\ \A i \in 1 .. n : i \in DOMAIN ev /\ ev[i] = evs[i]
      /\ \A i \in DOMAIN ev : /\ i \in Nat /\ i >= 1
                              /\ i > n => /\ i - n \in 1 .. Len(tasks)
                                          /\ tasks[i - n].kind = "deliver"
                                          /\ ev[i] = tasks[i - n].event
  BY <1>1, <1>2, TrailIsSafe
<1>9. j \in DOMAIN ev /\ ev[j] = e
  BY <1>6, <1>7, <1>8
<1>10. /\ x \in DOMAIN fate
       /\ fate[x].end = "open" => ~Final(e)
       /\ (\A k \in DOMAIN ev : j < k => ev[k].id # x) => Fits(e, fate[x])
  BY <1>2, <1>7, <1>9 DEF HistorySafe
<1>11. fate[x].end \in {"open", "finished", "net"} \cup Refused
  BY <1>2, <1>10 DEF ClientsSafe
<1>12. ASSUME ~Waiting(x)
       PROVE  /\ row.state = StateOf(fate[x].end) /\ row.url = fate[x].url
              /\ fate[x].end \in {"policy", "filter"} => row.error = fate[x].end
  <2>1. ASSUME NEW k \in DOMAIN ev, j < k PROVE ev[k].id # x
    <3>1. CASE k <= n
      <4>1. k \in 1 .. n
        BY <1>4, <1>8, <3>1
      <4> QED BY <1>7, <1>8, <2>1, <4>1
    <3>2. CASE ~(k <= n)
      <4>1. k > n
        BY <1>4, <1>8, <3>2
      <4>2. k - n \in 1 .. Len(tasks) /\ tasks[k - n].kind = "deliver"
            /\ ev[k] = tasks[k - n].event
        BY <1>8, <4>1
      <4>3. DOMAIN tasks = 1 .. Len(tasks)
        BY <1>2 DEF IsTasks
      <4> QED BY <1>12, <4>2, <4>3 DEF Waiting
    <3> QED BY <3>1, <3>2
  <2>2. Fits(e, fate[x])
    BY <1>10, <2>1
  <2>3. row.url = fate[x].url
    BY <1>7, <2>2 DEF Fits
  <2>4. CASE fate[x].end = "open"
    BY <1>7, <1>10, <2>3, <2>4 DEF StateOf, StateAfter, Final
  <2>5. CASE fate[x].end = "finished"
    <3>1. e.kind = "Finished"
      BY <2>2, <2>5 DEF Fits
    <3> QED BY <1>7, <2>3, <2>5, <3>1 DEF StateOf, StateAfter
  <2>6. CASE fate[x].end \in {"net"} \cup Refused
    <3>1. e.kind = "Failed" /\ e.error = fate[x].end
      BY <2>2, <2>6 DEF Fits
    <3> QED BY <1>7, <2>3, <2>6, <3>1 DEF StateOf, StateAfter, Refused
  <2> QED BY <1>11, <2>4, <2>5, <2>6
<1>13. /\ row.blocked => fate[x].end \in Refused
       /\ fate[x].end \in Refused /\ About(log, x) # {} => row.blocked
  <2>1. CASE About(log, x) = {}
    BY <1>1, <1>5, <2>1 DEF BlockTold
  <2>2. CASE About(log, x) # {}
    <3>1. PICK i \in 1 .. Len(log) : NewestAbout(log, x, i) /\ row.blocked = log[i].blocked
      BY <1>1, <1>5, <2>2 DEF BlockTold
    <3>2. log[i].id = x /\ \A k \in 1 .. Len(log) : i < k => log[k].id # x
      BY <3>1 DEF NewestAbout
    <3>3. /\ log[i].blocked => fate[x].end \in Refused
          /\ fate[x].end \in Refused => log[i].blocked
      BY <1>2, <3>2 DEF LogSafe
    <3> QED BY <3>1, <3>3
  <2> QED BY <2>1, <2>2
<1>14. fate[x].end \in Refused /\ Len(log) < LogCapacity => About(log, x) # {}
  <2>1. ASSUME fate[x].end \in Refused, Len(log) < LogCapacity
        PROVE  \E i \in 1 .. Len(log) : log[i].id = x
    BY <1>2, <1>10, <2>1 DEF LogSafe
  <2>2. DOMAIN log = 1 .. Len(log)
    BY <1>3
  <2> QED BY <2>1, <2>2 DEF About
<1> QED BY <1>1, <1>12, <1>13, <1>14 DEF FateTold, Refused

\* RowsTellFate: a request that is listed, and of which no event is on its way, is listed as
\* what became of it, and as blocked only if it was, whatever was dropped or cleared.
THEOREM RowsKeepTheirFate == TraceSpec => []RowsTellFate
<1>1. ASSUME UiSafe, RowsSafe, NEW i \in DOMAIN Rows PROVE FateTold(Rows[i])
  <2>1. PICK evs : evs = trace.events
    OBVIOUS
  <2>2. IsEvents(evs) /\ IsTasks(tasks) /\ HistorySafe(EventsOf(evs, tasks), fate)
    BY <1>1, <2>1 DEF RowsSafe, RowsAgree, UiSafe
  <2>3. Len(evs) \in Nat
    BY <2>2 DEF IsEvents
  <2>4. PICK g : IsSummary(evs, g) /\ Rows = [k \in DOMAIN g[Len(evs)] |->
                                                WithDecision(g[Len(evs)][k], log)]
    BY <2>1, <2>3, RowsAre
  <2>5. TrailSafe(evs)
    BY <2>2, TrailIsSafe
  <2>6. RowsTell(g[Len(evs)], evs, Len(evs))
    BY <2>2, <2>4, <2>5, SummaryTells
  <2>7. PICK rows : rows = g[Len(evs)]
    OBVIOUS
  <2>8. DOMAIN rows = 1 .. Len(rows)
        /\ \A k \in 1 .. Len(rows) : \E j \in 1 .. Len(evs) : RowTells(rows[k], evs, Len(evs), j)
    BY <2>6, <2>7 DEF RowsTell
  <2>9. i \in DOMAIN rows /\ Rows[i] = WithDecision(rows[i], log)
    BY <1>1, <2>4, <2>7
  <2>10. PICK j \in 1 .. Len(evs) : RowTells(rows[i], evs, Len(evs), j)
    BY <2>8, <2>9
  <2>11. PICK row, old : row = Rows[i] /\ old = rows[i]
    OBVIOUS
  <2>12. FateTold(row)
    BY <1>1, <2>1, <2>9, <2>10, <2>11, RowTellsFate
  <2> QED BY <2>11, <2>12
<1>2. UiSafe /\ RowsSafe => RowsTellFate
  BY <1>1 DEF RowsTellFate, FateTold
<1> QED BY <1>2, RowsStaySafe, PTL
=============================================================================
