----------------------------- MODULE FocusMode -----------------------------
(***************************************************************************)
(* The focus sprint: FocusSprint's timer, the FocusSidebar that drives it  *)
(* with delayed tasks, and what DesktopApp does with the rest of the       *)
(* window while a sprint runs (apps/desktop/focus_sidebar.cpp and          *)
(* desktop_app.cpp).  A button press is a task posted to the UI thread, a  *)
(* tick is a task posted one second ahead; time goes by half seconds, and  *)
(* not while a tick is due.                                                *)
(*                                                                         *)
(* The state of the UI objects is one record, and a member function is one *)
(* operator on it:                                                         *)
(*   sprint, left   FocusSprint::state_ and remaining_seconds_             *)
(*   timer          timer_running_                                         *)
(*   due            due[h] is the number of ticks due in h half seconds    *)
(*   compact        compact_indicator_                                     *)
(*   notified       focus_mode_notified_                                   *)
(*   open           which drawers are visible, "Focus" among them          *)
(*   active         TransientPanelState::active_                           *)
(*   focused        focus_chrome_active_                                   *)
(*   chrome         which of the permanent bars are visible                *)
(*   before         the three ..._visible_before_focus_                    *)
(***************************************************************************)
EXTENDS Integers, FiniteSets, Sequences

CONSTANTS
  Drawers,      \* the drawers other than Focus; Settings and NetworkLab are among them
  Duration,     \* seconds of a sprint, 1500 in the code
  MaxPresses,   \* bound on the presses posted and not yet handled
  MaxTicks      \* bound on the ticks outstanding after a press of Start

ASSUME DrawersAssumption ==
  {"Settings", "NetworkLab"} \subseteq Drawers /\ Drawers \cap {"Focus", "None"} = {}
ASSUME DurationAssumption == Duration \in Nat \ {0}
ASSUME BoundsAssumption == MaxPresses \in Nat /\ MaxTicks \in Nat

VARIABLES
  ui,        \* the UI objects
  presses    \* buttons of the focus sidebar pressed and not yet handled

focusVars == <<ui, presses>>

Panels == Drawers \cup {"Focus"}
Bars == {"aura", "bookmarks", "tabs"}
SprintStates == {"Idle", "Running", "Paused", "Completed"}
Buttons == {"Start", "Pause", "Reset", "Expand"}

Ticks(u) == u.due[0] + u.due[1] + u.due[2]
IsFocusModeActive(u) == u.sprint = "Running"

TypeOK ==
  /\ ui \in [sprint: SprintStates, left: 0 .. Duration, timer: BOOLEAN,
             due: [0 .. 2 -> 0 .. MaxTicks], compact: BOOLEAN, notified: BOOLEAN,
             open: [Panels -> BOOLEAN], active: Panels \cup {"None"}, focused: BOOLEAN,
             chrome: [Bars -> BOOLEAN], before: [Bars -> BOOLEAN]]
  /\ presses \in Seq(Buttons) /\ Len(presses) <= MaxPresses

\* The Network Lab opens at startup when the command line asks for it, the aura
\* sidebar unless it is hidden by preference.
FocusInit ==
  /\ presses = <<>>
  /\ \E lab, aura \in BOOLEAN :
       ui = [sprint |-> "Idle", left |-> Duration, timer |-> FALSE,
             due |-> [h \in 0 .. 2 |-> 0], compact |-> FALSE, notified |-> FALSE,
             open |-> [p \in Panels |-> lab /\ p = "NetworkLab"],
             active |-> IF lab THEN "NetworkLab" ELSE "None", focused |-> FALSE,
             chrome |-> [b \in Bars |-> b = "tabs" \/ (b = "aura" /\ aura)],
             before |-> [b \in Bars |-> b = "tabs"]]

-----------------------------------------------------------------------------
\* Drawers and TransientPanelState.

\* OnTransientPanelVisibilityChanged, outside HideTransientPanels.
VisibilityChanged(u, p, visible) ==
  IF visible THEN [u EXCEPT !.active = p]
  ELSE IF u.active = p THEN [u EXCEPT !.active = "None"] ELSE u

SetVisible(u, p, visible) ==
  IF u.open[p] = visible THEN u
  ELSE VisibilityChanged([u EXCEPT !.open[p] = visible], p, visible)

ShowFocus(u) == [SetVisible(u, "Focus", TRUE) EXCEPT !.compact = FALSE]

\* Mutant: the logical state keeps naming the drawer that was hidden.
HideKeepsActive(u) ==
  [u EXCEPT !.open = [p \in Panels |-> p = "Focus" /\ IsFocusModeActive(u)],
            !.compact = @ \/ IsFocusModeActive(u)]

\* Hiding the focus sidebar during a sprint leaves its compact indicator.
HideTransientPanels(u) ==
  [u EXCEPT !.open = [p \in Panels |-> p = "Focus" /\ IsFocusModeActive(u)],
            !.compact = @ \/ IsFocusModeActive(u), !.active = "None"]

ToggleTransientPanel(u, p) ==
  LET hidden == HideTransientPanels(u)
  IN  IF u.open[p] THEN hidden
      ELSE IF p = "Focus" THEN [ShowFocus(hidden) EXCEPT !.active = p]
      ELSE [SetVisible(hidden, p, TRUE) EXCEPT !.active = p]

ToggleFocusPanel(u) ==
  IF ~IsFocusModeActive(u) THEN ToggleTransientPanel(u, "Focus")
  ELSE IF ~u.open["Focus"] \/ u.compact THEN ShowFocus(u)
  ELSE [u EXCEPT !.compact = TRUE]

-----------------------------------------------------------------------------
\* The chrome during a sprint.

RetractChrome(u) ==
  HideTransientPanels([u EXCEPT !.focused = TRUE, !.before = u.chrome,
                                !.chrome = [b \in Bars |-> FALSE]])

\* Mutant: the bookmarks bar is forgotten.
RestoreTwoBars(u) ==
  [u EXCEPT !.focused = FALSE, !.chrome = [u.before EXCEPT !["bookmarks"] = FALSE]]

RestoreChrome(u) == [u EXCEPT !.focused = FALSE, !.chrome = u.before]

ApplyFocusChromeState(u, enabled) ==
  IF u.focused = enabled THEN u
  ELSE IF enabled THEN RetractChrome(u) ELSE RestoreChrome(u)

NotifyFocusModeChanged(u, enabled) ==
  IF u.notified = enabled THEN u
  ELSE ApplyFocusChromeState([u EXCEPT !.notified = enabled], enabled)

-----------------------------------------------------------------------------
\* The sprint and its timer.

ScheduleTimerTick(u) == IF u.timer THEN [u EXCEPT !.due[2] = @ + 1] ELSE u

\* FocusSprint::Start, or Resume when it is paused.
SprintStarted(u) ==
  IF u.sprint = "Paused" THEN [u EXCEPT !.sprint = "Running"]
  ELSE [u EXCEPT !.sprint = "Running", !.left = Duration]

StartSprint(u) ==
  LET shown == [ShowFocus([SprintStarted(u) EXCEPT !.timer = TRUE]) EXCEPT !.compact = TRUE]
  IN  ScheduleTimerTick(NotifyFocusModeChanged(shown, TRUE))

\* What pausing and resetting have in common.
Stopped(u) == NotifyFocusModeChanged(ShowFocus([u EXCEPT !.timer = FALSE]), FALSE)

PauseSprint(u) ==
  Stopped(IF IsFocusModeActive(u) THEN [u EXCEPT !.sprint = "Paused"] ELSE u)

ResetSprint(u) == Stopped([u EXCEPT !.sprint = "Idle", !.left = Duration])

Complete(u) ==
  NotifyFocusModeChanged(
    [u EXCEPT !.sprint = "Completed", !.left = 0, !.timer = FALSE, !.compact = FALSE], FALSE)

\* Mutant: a tick that is not the last posts no successor.
TickOnce(u) ==
  IF ~u.timer \/ ~IsFocusModeActive(u) THEN u
  ELSE IF u.left <= 1 THEN Complete(u) ELSE [u EXCEPT !.left = @ - 1]

OnTimerTick(u) ==
  IF ~u.timer \/ ~IsFocusModeActive(u) THEN u
  ELSE IF u.left <= 1 THEN Complete(u)
  ELSE ScheduleTimerTick([u EXCEPT !.left = @ - 1])

-----------------------------------------------------------------------------
\* The buttons RebuildQueueView lays out.
Shown(u) ==
  IF ~u.open["Focus"] THEN {}
  ELSE IF IsFocusModeActive(u) THEN (IF u.compact THEN {"Expand", "Pause"} ELSE {"Pause", "Reset"})
  ELSE {"Start", "Reset"}

HandleFocusAction(u, button) ==
  CASE button = "Start" -> StartSprint(u)
    [] button = "Pause" -> PauseSprint(u)
    [] button = "Reset" -> ResetSprint(u)
    [] button = "Expand" -> ShowFocus(u)

\* Ticks outstanding once every press of Start has been handled.
TicksAhead == Ticks(ui) + Cardinality({i \in DOMAIN presses : presses[i] = "Start"})

PressFocusButton ==
  /\ Len(presses) < MaxPresses
  /\ \E b \in Shown(ui) :
       /\ b = "Start" => TicksAhead < MaxTicks
       /\ presses' = Append(presses, b)
  /\ UNCHANGED ui

HandleFocusButton ==
  /\ presses # <<>>
  /\ ui' = HandleFocusAction(ui, Head(presses)) /\ presses' = Tail(presses)

ToggleDrawer ==
  /\ ui' = ToggleFocusPanel(ui) \/ \E p \in Drawers : ui' = ToggleTransientPanel(ui, p)
  /\ UNCHANGED presses

CloseDrawer ==
  /\ \E p \in Drawers : ui.open[p] /\ ui' = SetVisible(ui, p, FALSE)
  /\ UNCHANGED presses

\* ToggleAuraSidebar and ToggleBookmarksBar.
ToggleBar ==
  /\ ~ui.focused
  /\ \E b \in {"aura", "bookmarks"} : ui' = [ui EXCEPT !.chrome[b] = ~@]
  /\ UNCHANGED presses

\* Every setting saved applies the preference for the aura sidebar again.
NotifySettingsChanged ==
  /\ ui.open["Settings"]
  /\ \E visible \in BOOLEAN : ui' = [ui EXCEPT !.chrome["aura"] = visible]
  /\ UNCHANGED presses

Tick ==
  /\ ui.due[0] > 0
  /\ ui' = OnTimerTick([ui EXCEPT !.due[0] = @ - 1])
  /\ UNCHANGED presses

HalfSecond ==
  /\ ui.due[0] = 0 /\ Ticks(ui) > 0
  /\ ui' = [ui EXCEPT !.due = [h \in 0 .. 2 |-> IF h = 2 THEN 0 ELSE ui.due[h + 1]]]
  /\ UNCHANGED presses

FocusNext ==
  \/ PressFocusButton
  \/ HandleFocusButton
  \/ ToggleDrawer
  \/ CloseDrawer
  \/ ToggleBar
  \/ NotifySettingsChanged
  \/ Tick
  \/ HalfSecond

FocusSpec == FocusInit /\ [][FocusNext]_focusVars

\* The UI thread runs its tasks and time goes by, however often the user acts.
FairSpec == FocusSpec /\ WF_focusVars(HandleFocusButton) /\ WF_focusVars(Tick) /\ SF_focusVars(HalfSecond)

-----------------------------------------------------------------------------
\* The five records of a sprint being under way (FocusSprint, the sidebar's timer
\* and notification flags, DesktopApp's chrome flag, the visible indicator) agree
\* between handlers, whatever presses and ticks arrive late.
FocusModeIsSprint ==
  /\ ui.timer = IsFocusModeActive(ui)
  /\ ui.notified = IsFocusModeActive(ui)
  /\ ui.focused = IsFocusModeActive(ui)
  /\ IsFocusModeActive(ui) => ui.open["Focus"]

\* A running sprint always has a tick on its way and time left.
SprintKeepsTicking == IsFocusModeActive(ui) => Ticks(ui) > 0 /\ ui.left > 0

\* The drawer TransientPanelState names is visible, and of the drawers other than
\* Focus at most one is, however often they open and close each other.
DrawersAgree ==
  /\ ui.active # "None" => ui.open[ui.active]
  /\ Cardinality({p \in Drawers : ui.open[p]}) <= 1

\* The records of the sprint, its ticks and the drawers agree between any two handlers.
FocusIsSound == TypeOK /\ FocusModeIsSprint /\ SprintKeepsTicking /\ DrawersAgree

\* The bars a sprint retracted come back as they were when it started.
ChromeIsRestored ==
  [][/\ ui.focused => ui'.before = ui.before
     /\ ~ui.focused /\ ui'.focused => ui'.before = ui.chrome
     /\ ui.focused /\ ~ui'.focused => ui'.chrome = ui.before]_focusVars

\* A sprint ends, by itself if the user does not stop it.
SprintEnds == IsFocusModeActive(ui) ~> ~IsFocusModeActive(ui)
=============================================================================
