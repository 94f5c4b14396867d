# Openbrowser in TLA+

Openbrowser is a desktop browser: a core library that decides what tabs, sessions,
histories and focus sprints are, and a shell that puts the core over Chromium (CEF) and
draws the window.  This directory models the parts whose correctness depends on the
*order* of things: commands of the shell, late events of Chromium, posted tasks, private
mode, failing saves, crashes and restarts.  The modules are checked with TLC on small
instances, and every safety and action property the passing runs check is also proved with
TLAPS, for every value of the constants.  What is left to TLC alone is what must eventually
happen.

Paths below are shortened: `core/`, `engine/` and `devtools/` are in `src/src`, the shell,
`apps/desktop`, is in `src/apps/desktop`.

## 1. The system

Nearly everything runs on the browser's UI thread.  A call of the shell into the
core is therefore one step; what interleaves is what the UI thread runs *between* calls:
engine callbacks, posted tasks, delayed tasks, and the end of the process.  The exceptions
are the resource handlers, which Chromium calls on its IO thread and which decide about a
request before they post what they saw, and the control calls of a download, which reach
Chromium as tasks of their own.

### Parts that are modelled

**Browser session** (`core/session/browser_session.cpp`).  State: the tabs in strip
order with their lifecycle, navigation status, addresses and titles; the active tab; a
bounded list of closed tabs; an activation counter; a counter for the names of reopened
tabs.  Operations: open, close, activate, cycle, reopen, purge the private closed tabs,
navigate and its variants, suspend, resume, discard, and the engine's events (started,
committed, failed, title, crash).  It calls the engine interface and notifies observers
after each change.  Hard: events about tabs that were closed or discarded since, the
choice of the next active tab, records that outlive their tab.  Correct when ids are
unique, one tab is active and `active_tab_id_` names it, the status fields of a tab
agree, the closed list is bounded, and the engine always mirrors the session.

**Engine interface** (`engine/browser_engine.h`).  What the core expects of any engine:
commands that have their whole effect before they return.

**Chromium engine adapter** (`apps/desktop/cef_browser_engine.cpp`, `cef_tab_client.cpp`).
State: one surface per tab id (view, browser, queued navigation, request context), the
active surface, the count of live browsers, ephemeral mode and its shared request
context, permission prompts, and the flags of the window's close.  A browser appears
some time after its view and goes some time after it was asked to.  Hard: commands that
meet a surface that is not ready or is closing, and deciding when the process may end.
Correct when pages and tabs correspond, only the active page is shown, nothing queued is
lost, and the message loop ends exactly after the window and the last browser.

**Desktop shell: tabs and window** (`desktop_app.cpp`, `tab_strip.cpp`).  Two commands
that open tabs, each with a counter of its own; close, reopen, cycle, navigate; the
window's close, which every page may refuse.

**Private mode** (`session_privacy_orchestrator.cpp`, `session_history_bridge.h`).
Entering and leaving open and close tabs, purge records and contexts, and switch
profile; the history bridge, an observer of the session, records visits and saves the
session after each change.  Correct when neither mode shows a page of the other, leaving
leaves nothing behind, and no private address is recorded or saved.

**Atomic file store** (`core/storage/atomic_file_store.cpp`).  A write goes through a
temporary file and a backup, a read falls back on the backup.  Hard: the program can
stop between any two file operations, or in the middle of one, and each can fail.
Correct when readers find the old document or the new one and never something else.

**Focus queue and controller** (`focus_queue.cpp`, `focus_session_controller.cpp`), with
**session persistence and restart** (`session_persistence.cpp`, `desktop_app.cpp`,
`focus_sidebar.cpp`).  Items are addresses to be worked on, bound to tabs while these
are open.  Session and queue are saved by observers while things change and restored
at launch.  Hard: what a crash between two saves leaves, and names that are generated
anew by a program whose old names were restored.

**Focus sprint and focus chrome** (`focus_sprint.cpp`, `focus_sidebar.cpp`,
`transient_panel_state.cpp`, parts of `desktop_app.cpp`).  A timer driven by delayed
tasks, buttons handled by posted tasks, drawers that close one another, bars retracted
during a sprint and brought back after it.

**Transfers** (`core/transfers`, `downloads_panel.cpp`, the download handler of
`cef_tab_client.cpp`).  State: the broker's items and control functions, the directory the
file broker allows, the rows of the drawer.  Chromium announces a download, reports on it,
gives it a path and ends it; the drawer's buttons post presses that call the broker, which
calls Chromium back.  Hard: presses handled after the end, pauses that cross a report, two
downloads that look for a free name at once.  Correct when drawer, broker and Chromium
agree once nothing is on its way, finished files are not written over, and what is
cancelled stops.

**Capabilities and permission prompts** (`core/capabilities`, `browser_chrome.cpp`, the
prompts of the engine adapter).  A request is decided by the narrowest scope that has a
rule, or becomes a prompt of its tab; the banner shows one prompt of the active tab, and
an answer can be remembered as a rule of the origin, saved in a file.  The address field
keeps the origin whose rules its button resets.  Hard: prompts whose tab goes, is
discarded or is replaced while they wait, and what private mode may remember.

**Network Lab** (`devtools/network`, `core/network`, `core/filters`,
`network_lab_panel.cpp`, the resource handlers of `cef_tab_client.cpp`).  Policy and
content filter decide about each request; a bounded log keeps the decisions, a bounded
trace the events, a recorder writes the events to a file, and the panel shows one row per
request, filtered.  Hard: decision and event reach the UI at different times, both buffers
drop their oldest, clearing starts the numbers again, redirects reuse a request.  Correct
when a row tells what became of its request, the panel is current, and a recording has no
gap.

**Workspaces** (`core/workspaces`, `tab_strip.cpp`, `aura_sidebar.cpp`).  Every tab belongs
to a workspace.  Selecting a workspace picks a tab to show, and a tab that comes up any
other way (a focus item, a close, private mode) picks the workspace; the strip lists the
tabs of the mode and the workspace, the sidebar marks the workspace and shows messages
that take themselves down.  Hard: two parties that each follow the other, and what of it
a restart brings back.

**Profile data** (`core/history`, `core/bookmarks`, `core/settings`, `core/sync`, with
`library_panel.cpp`, `bookmarks_bar.cpp`, `settings_panel.cpp`).  Collections loaded at
launch, saved at each change, and shown by views that are rebuilt when told.  The sync
provider keeps a store in memory and writes it whole.  Hard: presses handled after the
data, the tab or the mode changed; saves that fail unnoticed; ids numbered anew.

### How they interact

The shell calls the session (through the orchestrator when private mode matters); the
session commands the engine and notifies its observers synchronously: the tab strip
redraws and moves the workspace, the bookmarks bar and the library follow the active tab,
the focus sidebar unbinds the items of closed tabs, the history bridge records and saves.
The engine calls back into the session from Chromium's callbacks, into the chrome with
permission prompts, into the transfer broker with downloads, and into the trace with
network events.  The capability policy is asked by the prompts and by the resource
handlers.  The focus controller opens and activates tabs through the session.  The
settings reach the chrome, the file broker and the engine.  Every save goes through the
atomic file store.

### Not modelled, or in part

| Part | Why |
| --- | --- |
| Tab discard policy | nothing in the shell calls it; what it does to a session is a sequence of `DiscardTab` calls, which `BrowserSession` allows at any time |
| Workspaces: create, remove | only tests call them; the program has the workspaces it starts with |
| History: search, clear a workspace. Bookmarks: edit, folders. Sync: pull, manifest, load | the program does not call them |
| Settings: home page, restore at launch | read at the next launch only; `SessionRestart` takes a launch that restores and one that does not |
| Profiles | the program keeps one persistent profile and switches to an ephemeral one; that is in `PrivateMode` |
| Content filters: rule parser, allow list | called by nothing in the program; `NetworkTrace` has what the filter decides of a request |
| Exports of the trace, redaction, connection diagnostics | functions of a trace at one moment, and a registry that is only shown |
| Attribution and waterfall, commands and palette, compatibility and user agent | lookup tables, ranking and layout, without state over time |
| Address input, JSON helper | text functions; the models take their results |
| Find bar, zoom, icons, internal pages, menus | layout, text, and commands passed on to Chromium |
| Providers, entry points, build, scripts, fuzzing | no logic of the running program |

## 2. The modules

| Module | Models |
| --- | --- |
| `TabTypes`, `SeqFilter` | ids; filtering a sequence by position |
| `SessionOps` | every member function of `BrowserSession`, as an operator from a session to the session it leaves |
| `SessionInvariants` | what is true of a session between calls, as predicates every composition reuses |
| `BrowserSession` | the session alone: any call or event at any time |
| `EngineContract`, `SessionOverContract` | the synchronous engine; the session over it |
| `CefEngineOps` | the Chromium engine, as operators |
| `DesktopTabs` | session + Chromium engine + shell + window, and the refinement to `BrowserSession` over the synchronous engine |
| `PrivateMode` | session + Chromium engine + orchestrator + history bridge |
| `CrashSafeRegister`, `AtomicFile` | what a file promises; the file operations that keep it |
| `FocusQueueOps`, `SessionRestart` | queue and controller; session + queue + persistence over several runs of the program |
| `FocusMode` | sprint, focus sidebar, drawers and bars |
| `TransferOps`, `Downloads` | `TransferBroker` and `FileBroker`; downloads, drawer, control calls and disk |
| `CapabilityOps`, `Permissions` | `CapabilityPolicy`; prompts, banner, address field and the file of rules |
| `TraceOps`, `NetworkTrace` | trace, decision log, filter, query, recorder; resource handlers on the IO thread, the UI's tasks, the panel and private mode |
| `Workspaces` | workspaces, strip, sidebar, tab commands, private mode, restart |
| `LibraryOps`, `ProfileData` | history, bookmarks, settings, sync store; the panels, the recorder of visits, failing saves, restart |
| `MC*` | ids and bounds for TLC |
| `SequenceLemmas`, `SessionLemmas` | facts about filters of sequences; about the operators of the session and of its engines |
| `BrowserSessionProofs`, `DesktopTabsProofs`, `PrivateModeProofs`, `SessionRestartProofs` | the theorems about the module of that name |
| `StorageProofs` | those about `AtomicFile`, `Downloads`, `Permissions` and `ProfileData` |
| `ShellProofs` | those about `FocusMode`, `Workspaces` and `NetworkTrace` |

`SessionOps` keeps the session in one record (`tabs`, `tab`, `active`, `closed`, `clock`,
`restored`, `engine` for `tabs_`, its elements, `active_tab_id_`, `closed_tabs_`,
`last_activated_counter_`, `restored_counter_` and `engine_`).  The six engine commands
are operator constants: a configuration gives them the operators of `EngineContract`
or those of `CefEngineOps`, so the same session text is checked over both engines.
A member function that rejects its arguments is an operator that returns its session
unchanged.  The other modules named `...Ops` are written the same way, `FocusMode` and `Workspaces` keep
the UI objects in one record, and the actions of the composed modules choose arguments
and thread these records through the calls in the order the code makes them.

Where one proof module extends several components, the names they would share carry a
prefix: `FileInit`, `DownloadsNext`, `focusVars`.

Operators whose comment begins with `Mutant:` are not used by any action: each is a
plausible mistake in the definition that follows it, against which a property is tried.

### Abstractions

- Addresses are members of a small set that contains the three the code treats
  specially (new tab, private new tab, the legacy placeholder `https://example.com/`);
  a title is either the placeholder or a page's.
- Time in `FocusMode` is counted in half seconds, and a tick that is due runs before more
  time goes by.  The attention metrics of a sprint are left out.  Nothing in the code gives
  a focus item the state `Paused`.
- `CreateBrowserView` does not fail.  How Chromium closes browsers and windows is external
  and taken as the adapter's comments and `DoClose` rely on it.
- The shell never suspends or discards tabs, so `DesktopTabs` and `PrivateMode` do not;
  `BrowserSession` does.
- `AtomicFile` is the POSIX branch with a backup, as every caller asks.  A crash stops
  the program; the disk does what it was told (no power loss, no reordering of writes).
- In `SessionRestart` saves succeed, the engine is the synchronous one and all tabs are
  persistent.  Its pages do not visit the legacy placeholder, which is rewritten when
  it is restored (section 6).
- `Downloads` takes names as sanitized: a path is a directory, a name and the number a
  collision gave it.  The broker's mutex guards each call; what runs after the unlock is in
  the same step because only the UI thread calls it.
- In `Permissions` and `NetworkTrace` an address is its scheme and origin, or a member of a
  small set; whether a rules document is valid is whether the file holds the rules.  Tabs
  are open, closing or active; which tab comes up next is left to the session modules.
- In `NetworkTrace` an append to the decision log and a read of it are atomic, although
  the log has no lock (section 6); headers, sizes, times and attributions are left out.
- In `Workspaces` a tab is its workspace and its mode, and ids are never reused; in
  `ProfileData` the session is two tabs of two workspaces and a private one.  Settings are
  those with an effect while the program runs.

## 3. What the runs check

Bounds are chosen so that every operation meets every situation its code distinguishes:
an empty, a one-element and a longer list, an id that is free, in use, and in use again.

**`session`** (`MCBrowserSession`, 157 thousand states).  Three ids, one of them the
name of reopened tabs, so that every id can be closed and come back; two page addresses,
so that a commit can differ from the load it ends; a closed list of two, so that it
overflows; three activations.  The two shell ids are symmetric.  The constraint
`MCFewBusyTabs` keeps one tab under way at a time (none with three tabs open): the code
never relates the status or address of one tab to those of another.  Private tabs are
left to `private_mode`.  Shows `SessionIsSound` (types, unique ids, one active tab which is
the newest, status fields that agree, a bounded closed list), `EngineInSync` (the engine
mirrors the session, so no handler forgets or misorders a command), `CloseHandsOver` (closing
the active tab hands over to the neighbour that can be shown, and closes nothing else),
`DiscardedIsFrozen` (late events do not change what a discarded tab is restored from),
and `ReopenUndoesLastClose`.

**`desktop_tabs`** (139 thousand).  Ids `initial`, `tab-2`, `restored-1`; one address; one
closed tab; four activations: enough for a tab to be closed while its browser is still
being created, for its id to come back, and for the window to close in any of these
states.  `EngineMirrorsSession`: pages mirror tabs, only the active one is visible, a queued
navigation is kept.  `BrowsersAreCounted`: the live count is exact and the loop quits last.
`WindowOutlivesTabs`: closing tabs does not close the window while a page refuses.  A window
close that no page refuses ends the process (`WindowCloseQuits`).  `ImplementsCore` is the refinement: hiding
the browsers' life, every step is a step of `BrowserSession` over the synchronous
engine, or none.  Together with the theorems about `BrowserSession`, this says that the
asynchrony of Chromium cannot be seen by the core.

**`private_mode`** (639 thousand).  Six ids (initial, two numbered, two private, one
restored), a public and a secret address, five activations: two rounds of private mode,
with browsers of the first still closing in the second.  The number an exit gives its new tab
is guarded like that of any new tab: six activations would reach an exit that meets its own
old browser, and the theorems hold at every bound.  `ModesAreSeparate`: each mode shows
only its tabs, leaving leaves nothing, request contexts are apart.  Nothing secret is
recorded or saved, the saved session is current, and persistent tabs are kept.

Both runs over Chromium assume that the number of a tab does not come up again while the
browser of its last owner is closing (`HastyReuse = FALSE`); the run `private_trace` drops
the assumption, and shows that the code relies on it (section 6 has what else follows).

**`atomic_file`** (1,453).  Three documents (old, backup, new), every subset of {rename,
making the backup} failing, crashes anywhere.  `ImplementsRegister`: while rename works, readers
and writers see a register whose writes take effect at one instant or not at all.
`SoundPrimaryIsKept`: while the backup can be made, even the copying fallback loses
nothing.  The inductive invariant of the proofs, `WholeFiles`, is proved and not run again.

**`focus_mode`** (100 thousand).  Three drawers, a sprint of one and a half seconds, two
presses pending, two ticks outstanding, so that a press can find any stage of a sprint and
two chains of ticks can run.  `FocusIsSound`: five records of a sprint agree, a running
sprint always has a tick coming, drawers exclude each other.  Bars come back as they were,
a sprint ends.

**`restart`** (983 thousand).  Two runs of the program, three tabs, two items, three
activations per run, one closed tab; tab names built from item names are pairs of
their parts.  `RestartIsSound`: everything saved can be restored, items never name a tab that
is not open, the queue is in order.  Tabs survive a quit and a crash at any point, a quit with a tab open keeps the
queue, and activating an item shows its page.

**`downloads`** (359 thousand).  Two downloads of one name, in either of two directories
one of which the user can choose in between, and a third path from the save dialog; copy
numbers up to two, so that they run out.  The rows of one download are pressed and its tab
may close; the other goes on beside it, with one posted press and two control calls under
way at a time: presses act on one transfer, and two suffice for pause and resume, or pause
and cancel, to cross.  Sizes are unknown, so progress does not multiply the states.
`DownloadsAgree`, `FinishedFilesAreKept`, `CancelStopsDownload`.  The constants `EarlyPress` and
`Simultaneous` take away two assumptions; section 6 says what breaks.

**`permissions`** (1.1 million).  Two persistent tabs and a private one, two origins one of
which a request may spell otherwise, two capabilities, one prompt Chromium numbers and one
the adapter numbers: enough for two prompts to wait at once, of one tab or of two, in
either mode.  `PromptsAreSound`: the banner shows a pending prompt of the active tab, no
prompt outlives its tab, nothing is answered twice.  `OriginIsCurrent`: the chrome resets the
origin it shows.  `NothingPrivateIsRemembered` and `RulesSurviveRestart` relate rules and file.

**`network`** (657 thousand).  A request of a persistent and one of a private tab, the first of
a page, each for an address that is plain, matched by a tracker rule, excused or denied by
the policy; a trace and a log of two entries, so that both overflow within one redirected
request; two tasks waiting and four things the user does.  `RowsTellFate`, `ViewIsCurrent`,
`RecordingIsWhole`.

**`workspaces`** (452 thousand).  Two workspaces, one closed tab, five things the user does,
two presses waiting, and a quit or crash with the launch after it.  Five turns reach a tab
in each workspace, private mode from either, a focus item of the other, and a close that
jumps.  `StripIsCurrent`, `FeedbackLastsItsTime`, `RestartComesBack`.

**`profile_data`** (706 thousand).  Two tabs of two workspaces and a private one, two
pages and the new-tab page, a list of one row (so that an entry is off the list), six
turns, two presses waiting, one failed save and one launch.  Six turns are a visit or a
bookmark in each workspace, private mode and back, a removal and a sync.
`ViewsAreCurrent`, `PrivateModeKeepsData`, `RestartKeepsData`, `SyncHoldsBookmarks`.

**`private_trace` is expected to fail.**  `README.md:51` of the repository promises private
browsing "with history/session persistence suppression".  The tab strip and the app number
tabs from counters of their own; after private mode the strip gives the id of a private
tab whose browser is still closing to a persistent tab, and a late commit of the private
page becomes that tab's address, is recorded as a visit and saved.

`CHECK_DEADLOCK FALSE` is given where a model stops at a bound or where the program really
ends; `atomic_file` and `focus_mode` check deadlock.

Every property of a passing run has a mutant: a mistake in the modelled code (a dropped
guard, a missing reset, a swapped order) under which TLC finds the property violated with
the same configuration.  A property named `...IsSound`, `...Agree` or `...AreCurrent` is a
conjunction of the named invariants above it in its module; its mutant breaks one of them.

### Fairness

Three properties are of the form "eventually".

`WindowCloseQuits` assumes that Chromium answers: a page that was asked accepts (unless it
refuses, which takes the window out of closing), a window being destroyed reports it,
and browsers report their end once their window is gone.  The code has no timeout
of its own and relies on exactly these callbacks.  No fairness is assumed of the user.

`SprintEnds` assumes that the UI thread runs the tasks posted to it (weak fairness of
`HandleFocusButton` and `Tick`) and that time goes by.  The last is strong fairness of
`HalfSecond`, because a tick that becomes due disables it for the moment.

`CancelStopsDownload` assumes that the UI thread runs a posted press and that a control call
reaches Chromium (weak fairness of `HandleAction` and of `RunCall` for each download).
Nothing is assumed of downloads: one may go on reporting for ever.

## 4. What is proved

TLAPS proves the theorems for every set of ids, addresses and documents and every bound.
A theorem with hypotheses names them: each is an operator of its proof module with a comment
that says where the code establishes it, the configurations satisfy it, and section 6 says
what happens without it.  The constants' assumptions are those named in the modules.

The arguments have one shape.  Each operation has a lemma that says what it does (`...Effect`)
and one that says what it preserves; an inductive invariant collects what the checked
properties rest on; the step proof has one case per action.  Recursive functions (the filter
of a sequence, the scan for the next tab, the tabs reopened at launch) are handled by the
least index at which a fact fails, since induction over an operator is not available:
`SequenceLemmas` has these facts for filters, removals and prefixes.

**`BrowserSessionProofs`.**  `TypeOK`, `UniqueIds`, `ActiveMatchesLifecycle`,
`ActiveIsMostRecent`, `StatusCoherent` and `ClosedListSound` are invariants of `Spec`, over
*any* engine: the engine constants are not constrained at all, so these invariants
do not depend on what Chromium does.  The inductive invariant is
`SessionInvariant(session)`, their conjunction; none of them is inductive alone.  For example,
closing the active tab keeps one tab active only because ids are unique, and
the activation order holds only because the active tab is the one whose lifecycle is Active.
`SessionSafety` is the run's `SessionIsSound`.  `SessionLemmas` proves it one operator at a
time, so that every composition can cite it.  Over any engine too: `DiscardedTabsAreFrozen`;
`CloseFindsASuccessor`, where the scan of `ActivateAfterClose` is shown to reach every
tab; and `ReopeningIsFaithful`, which needs that records have known addresses
(`HasKnownOrigins`), that the names the session makes up are its own (`OwnRestoredIds`) and that no page
sits at the legacy placeholder under a placeholder title (`NoLegacyPages`, section 6).  `EngineFollowsSession` is
about the session over the synchronous engine (`OverContract`: the six constants are its
operators), with the invariant `InSync`.

**`DesktopTabsProofs`.**  Over Chromium's engine (`OverCef`), where the ids the program makes
up differ as their texts do and a number waits for its old browser to go (`FreshIds`):
`EngineShowsSession`, `BrowserCountIsExact`, and `DesktopImplementsCore`, the refinement.  The
invariant is `DesktopInv`: queued addresses are shown as pending, surfaces are those of open
tabs while the window stands, names still to be given have no surface, browsers
are finite in number and counted.  The refinement maps a session `s` over Chromium to `Seen(s)`, the
same session over a synchronous engine that has the pages of the open tabs; each operation
is shown to commute with `Seen`, and an event of Chromium, a browser made or gone, or a refusal
to be a step of the session or a stutter.  It needs room for the first tab
(`0 < MaxActivations`).  With the theorems of `BrowserSessionProofs` it says that the asynchrony of Chromium
cannot be seen by the core.  `TabsLeaveWindowAlone` needs no invariant.

**`PrivateModeProofs`.**  All four properties of the run `private_mode`: `ModesStaySeparate`,
`NothingPrivateIsRecorded`, `SavedSessionStaysCurrent`, `PersistentTabsStay`.  They assume
`OverCef`, `FreshIds`, and that the new-tab page is no secret (`PublicNewTab`).  The invariant
`PrivateSafe` has three parts.  `ModeSafe`: each page has the context of its tab's mode, and
outside private mode no private tab, record or shared context is left.  `NamesUnused`: no
surface has a name still to be given; without it a page of one mode could come up
in the surface of the other, which the run `private_trace` shows.  `DiskSafe`: nothing
secret is in history or saved session, and the saved session is the one in memory.  Leaving
private mode closes tabs in a recursive function; each prefix of it is shown to keep the pages
safe and the persistent tabs open.

**`SessionRestartProofs`.**  `RestartStaysSound` (the run's `RestartIsSound`, with its parts) and `QueueIsKept`.
The invariant `RestartSafe` joins that of the session and of the queue with:
every file on disk can be restored, and a file that says the shutdown was clean is what was
last in memory, bindings included.  `TabsAreBroughtBack` adds `RestartFaithful`: the file
holds the records of what was last open, plain enough to come back as they were
(`NoLegacyPages`).  `ActivatedItemsAreShown` rests on focus tab ids made of different items being different
(`DistinctFocusTabIds`): the queue then always offers a free one.

**`StorageProofs`, atomic files.**  `FilesStayWhole` (`WholeFiles` is inductive), `RegisterImplemented`
(`ImplementsRegister`: initial states map to initial states, and while rename works each file
operation is a step of the register or none) and `SoundPrimaryKept`.  `WholeFiles` is
needed because the register's step at `Rename` is correct only if the temporary file
holds the whole new document, which was established several steps before.

**`StorageProofs`, downloads.**  `DownloadsStayInAgreement` assumes that no row is pressed
before its first report (`~EarlyPress`, section 6).  Its invariant `TransfersSafe` says for each
download (`Follows`) that the broker's state is what the *last* control call under way asks
for, or Chromium's own if none is; presses, calls and reports may cross in any way.
`FilesAreNotOverwritten` assumes that names are taken one after the other (`~Simultaneous`)
and that there are more numbers than files and downloads (`EnoughNumbers`, of which the loop
in `ResolveCollision` has ten thousand): then a free number is left, by counting.

**`StorageProofs`, permissions.**  All four properties of the run `permissions`, for any tabs, origins,
capabilities and prompt ids: `PromptsStaySound`, `OriginStaysCurrent`, `RulesStaySaved` and
`PrivateModeLeavesNoRule`.  They assume that a closing browser asks for nothing
(`~LateRequests`, section 6).  The
invariant, `PermissionsSafe`, adds to the three checked invariants the types and
`ModeOwnsTabs`, that private tabs are open in private mode only: without it, a prompt of a
private tab could be in the banner outside private mode, where an answer is remembered.
The prompt `FindPromptForTab` picks is the least one of the tab, which exists because ids
are numbers.

**`ShellProofs`, focus mode.**  `SprintStaysSound` and `ChromeComesBack`, without hypotheses, for
any number of ticks and presses.  `FocusSafe` adds to the checked invariant that a sprint has time
left, that its drawer is open, and that the ticks on their way and the starts among the
waiting presses stay within the bound together.

**`ShellProofs`, workspaces.**  All three properties, without hypotheses: `StripStaysCurrent`,
`FeedbackLasts`, `RestartBringsBack`.  The invariant `WorkspacesSafe` is of the browser
(`BrowserSafe`) and the sidebar (`SidebarSafe`).  Every change of the session leaves it `Settled`:
the active tab is open and of the mode, and the disk has the workspace; then a
notification alone makes strip, marker and disk right.  By-product: the branch in which the strip
corrects a tab of the other mode is never taken.

**`StorageProofs`, profile data.**  All four properties of the run, without hypotheses:
`ViewsStayCurrent`, `PrivateModeTouchesNothing`, `LaunchesFindTheData` and `SyncHoldsThemAll`.
Each part of the invariant `ProfileSafe` carries one of them: `SessionSafe` (private mode is on
exactly while the private tab is active, so a press that looks at the tab it is handled on
cannot take a private page for a public one), `FilesSafe` (a file whose last save did
not fail holds the document in memory), `ViewsSafe` (bar and library are of the data and the
tab as they are now), and, for the store, `DataSafe` with `StoreSafe`: ids tell bookmarks apart,
and what was pushed in this run is what the bookmark of its id is, so a push finds under an id
either nothing, a record of an earlier run, or its own.  A push of the whole list is a recursion,
reasoned about by the least prefix that lacks a bookmark.

**`ShellProofs`, Network Lab.**  All three properties, without hypotheses, for any requests,
addresses, filters and policies and any capacity of trace and log.  `UiSafe` is of the UI thread:
the panel's view is the one it would build, unless an event is on its way, and a recording
ends at the last event of the trace; `ViewStaysCurrent` also needs that building a view twice
gives it again, though the first time may deselect (`RebuiltTwice`).  `RowsKeepTheirFate`
rests on `RowsSafe`, which looks at trace and waiting tasks as one history of events:

- `HistorySafe`: nothing follows the final event of an id, only a redirect changes its address,
  and its last event fits its fate.  Posting extends this history; delivering moves an event
  from the tasks to the trace and drops the oldest, clearing drops what is in the trace, and
  both leave a suffix, of which the same is true (`HistoryCut`).
- `ClientsSafe`: an id is given once, and belongs to one request until that is forgotten.
- `LogSafe`: the newest decision about a refused request refuses it, and while the log is
  not full each has one.

Each row of the summary is then shown to tell of the last event of its request, by the least
prefix of the trace for which one does not.

## 5. What is only model-checked

The three liveness properties, `WindowCloseQuits`, `SprintEnds` and `CancelStopsDownload`:
liveness under fairness is out of the prover's reach, and with it every use of ENABLED.  Every
invariant and every action property of a passing run is proved; the runs remain what shows
that the cases they speak of happen, and, with their mutants, that the code could break them.

## 6. Disagreements met while modelling

These have no run of their own; the lines say what the code does, and a constant or a
condition named here is the one that keeps it out of a passing run.

Tabs and window:

- `cef_browser_engine.cpp:172`: `CreateTab` does nothing for an id whose browser is still
  closing, and the strip and the app number tabs separately, so a new tab can be left
  without a page (`HastyReuse = TRUE` breaks `EngineMirrorsSession`).
- `cef_browser_engine.cpp:730`: after one refused window close the request stays recorded,
  and closing a single tab closes the window.
- `browser_session.cpp:37`: the rewrite of placeholder tabs applies to reopening and
  restoring as well, so a page at `https://example.com/` that still has a placeholder title
  comes back as a new tab.

Sessions and files:

- `browser_session.cpp:127`: a tab named `restored-1` keeps its name through a restart, so
  the first reopening of the next run asks for the same name, is refused, and its record is
  lost.
- `desktop_app.cpp:516`: a queue saved with no tab open is not restored and is overwritten,
  though a comment calls it "persistent product state"; `QueueSurvivesQuit` therefore speaks
  of a quit with a tab open.
- `session_history_bridge.h:48`: visits are noticed on the active tab only; a background
  tab's visits between two activations are not recorded, and nothing is saved while no
  tab is active, so that after a crash the last tab closed is back.
- `atomic_file_store.cpp:126`: the primary is copied over the backup without being
  validated; `:146`: the result of the fallback copy is judged by the error of the removal
  after it.

Focus:

- `focus_sidebar.cpp:303`: pause and start within a second leave two chains of ticks, and
  the sprint takes half its time.
- `focus_sidebar.cpp:310`: ending a sprint shows the Focus drawer whatever other drawer
  is open; `DrawersAgree` therefore speaks of the drawers other than Focus.
- `settings_panel.cpp:446`: saving any setting during a sprint shows the aura sidebar again
  if the setting asks for it.
- `focus_session_controller.cpp:23`: the id of an item is made from the length of the queue,
  so after an earlier item is removed, enqueueing a tab can be refused as a duplicate.

Transfers:

- A press before the first report of a download finds no control function: the broker
  records the pause or the cancel, Chromium never hears of it (`EarlyPress = TRUE` breaks
  `DownloadsAgree`).
- `file_broker.cpp:132`: a free name is looked for when a download starts and taken when
  Chromium writes; two that resolve in between get one name, and when the numbers run out
  the taken name itself is returned (`Simultaneous = TRUE` breaks `FinishedFilesAreKept`).

Permissions:

- Of two prompts of one tab the banner shows one; the other comes up at the next change of
  the session only.
- A browser that is closing may still ask, and its prompt outlives its tab
  (`LateRequests = TRUE` breaks `PromptsAreSound`).
- The origin of a request and that of the address may be spelled differently, and Reset
  then clears rules other than those of the prompt; while the address is edited the chrome
  keeps the origin of an earlier page.  Dismissing a banner is remembered as a denial.

Network Lab:

- `filter_decision_log.h:51`: a comment says the log is thread-safe; handlers append to it on
  the IO thread, the panel reads it on the UI thread, and it has no lock.  The filter's
  counters and the policy's origin rules are read the same way.
- A panel that is shown again has the rows it had until the next event arrives;
  `ViewIsCurrent` therefore asks that it was told of something since.
- When the log has dropped a decision that is older than a still listed event, the blocked
  request reads as one that failed by itself.
- If Chromium reports the end of a request the handler cancelled, the request is listed
  twice, since its id was forgotten with the cancellation.
- A late event of a private tab, after private mode was left, is written to a recording,
  against `docs/implementation-progress.md:111`; exports include private rows.

Workspaces:

- A launch activates the first tab of the saved workspace, so the tab that was active is
  not, even where it belongs to that workspace; the comment at `tab_strip.cpp:106` speaks only
  of tabs of another one.
- Entering private mode switches to the default workspace and saves that; leaving goes to the
  workspace of the first persistent tab.
- Selecting the current workspace activates its first tab; closing a tab may jump to
  another workspace; after the last tab is closed no snapshot is saved until a clean quit.

Profile data:

- An open library lags behind the last visit, since the recorder of visits is told after the
  library (`desktop_app.cpp:795`), and behind a bookmark made by the bar: `ViewsAreCurrent`
  asks that it shows nothing that is gone.
- Typed settings that are not saved are lost when another button of the panel is pressed.
- A page bookmarked in one workspace cannot be bookmarked in another, without a message.
- `local_filesystem_sync.cpp:45`: the provider's store is empty after a launch, so a push
  overwrites records of other devices and deleted ones are never sent as deleted.

## 7. Plan

Modelled in the order of their weight: the session and its engines, private mode, files,
restart and focus; then transfers, permissions, the Network Lab, workspaces and profile data.
Proved in the same order.  What is left:

1. `OwnRestoredIds`, `FreshIds` and `DistinctFocusTabIds` are hypotheses because ids are members
   of a set; a model of the texts they are made of would turn them into lemmas.
2. Of private mode and of restarts it is proved what they preserve, not that each of their steps is
   a sequence of steps of `BrowserSession`; the refinement of `DesktopTabs` is the pattern.
3. Facts about operators that no theorem needs yet and a reader may ask for: that a query of the
   Network Lab lists a part of the rows in their order, and the order of the focus queue.
