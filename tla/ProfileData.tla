----------------------------- MODULE ProfileData -----------------------------
(***************************************************************************)
(* The data of the profile and everything that shows or changes it: the    *)
(* library panel, the bookmarks bar, the settings panel, the recorder of   *)
(* visits (SessionHistoryBridge), the local sync, and the files all of it  *)
(* is loaded from at a launch.                                             *)
(*                                                                         *)
(* Presses on the library and on the bar are posted and handled later,     *)
(* when the active tab, the mode and the data may be others; those on the  *)
(* settings panel are handled at once.  A save may fail and nobody looks.  *)
(* The observers of the session run in the order bar, library, recorder.   *)
(*                                                                         *)
(* The session is reduced to two tabs of different workspaces and, in      *)
(* private mode, a private one, and every tab starts at the new-tab page;  *)
(* PrivateMode.tla and SessionRestart.tla have it in full.                 *)
(***************************************************************************)
EXTENDS LibraryOps

CONSTANTS
  PublicTabs,   \* the persistent tabs
  FirstTab,     \* the one private mode is left to
  PrivateTab,   \* the tab of private mode
  WorkspaceOf,  \* the workspace of each tab
  Urls,         \* addresses of pages
  NewTabPage,   \* the address of the page a tab starts at, which is no visit
  Searches,     \* search addresses the user may type
  Directories,  \* download directories the user may type
  MaxTurns,     \* bound on what the user and the pages do
  MaxPresses,   \* bound on presses that wait to be handled
  MaxRuns,      \* bound on launches
  MaxFaults     \* bound on saves that fail

AllTabs == PublicTabs \cup {PrivateTab}
Drawers == {"none", "library", "settings"}
FilesSaved == {"history", "bookmarks", "settings", "sync"}

ASSUME PublicTabsAssumption == FirstTab \in PublicTabs /\ PrivateTab \notin PublicTabs
ASSUME LooksAssumption == Looks # <<>> /\ Empty \notin Searches \cup Directories

VARIABLES
  session,  \* active tab, mode, page of each tab, last recorded page of each tab
  data,     \* the managers: history, bookmarks, settings
  store,    \* records the sync provider holds in memory
  views,    \* open drawer, library section and rows, bar, typed settings
  effect,   \* what the chrome, the file broker and the engine were told
  files,    \* the files
  saves,    \* the files whose last save failed, and how many more may fail
  presses,  \* presses that wait for their UI task
  bounds    \* launches, turns, and the clock bookmarks are dated by

profileVars == <<session, data, store, views, effect, files, saves, presses, bounds>>

-----------------------------------------------------------------------------
\* The files.

Document(f) ==
  CASE f = "history" -> data.history.entries
    [] f = "bookmarks" -> data.bookmarks.items
    [] f = "settings" -> data.settings
    [] f = "sync" -> store

\* Mutant: what was removed or visited is saved at the next quit only.
SaveLater(fs) == UNCHANGED <<files, saves>>

\* TriggerAutoSave of each file in fs, after the call changed the data.
Save(fs) ==
  \E lost \in SUBSET fs :
    /\ Cardinality(lost) <= saves.left
    /\ files' = [f \in FilesSaved |-> IF f \in fs \ lost THEN Document(f)' ELSE files[f]]
    /\ saves' = [failed |-> (saves.failed \ fs) \cup lost, left |-> saves.left - Cardinality(lost)]

Turn == bounds.turns < MaxTurns /\ bounds' = [bounds EXCEPT !.turns = @ + 1]

-----------------------------------------------------------------------------
\* What the views show.

CurrentWorkspaceId(s) == WorkspaceOf[s.active]
IsPrivateContext(s) == s.active = PrivateTab

RebuildBar(v, s, d) == [v EXCEPT !.bar = ListBookmarks(d.bookmarks, CurrentWorkspaceId(s))]

AddHistoryRows(s, d) == IF IsPrivateContext(s) THEN <<>> ELSE ListHistory(d.history)
AddBookmarkRows(s, d) == ListBookmarks(d.bookmarks, CurrentWorkspaceId(s))

RebuildBody(v, s, d) ==
  [v EXCEPT !.rows = IF v.section = "history" THEN AddHistoryRows(s, d) ELSE AddBookmarkRows(s, d),
            !.removable = ~IsPrivateContext(s)]

\* OnBrowserSessionChanged of the bar, and of the library while it is visible.
Observed(v, s, d) ==
  LET barred == RebuildBar(v, s, d)
  IN  IF v.drawer = "library" THEN RebuildBody(barred, s, d) ELSE barred

RefreshFromSettings(v, d) ==
  [v EXCEPT !.typed = [search |-> d.settings.search, downloads |-> d.settings.downloads]]

-----------------------------------------------------------------------------
\* A change of the session to s, with the views then being v.  The recorder runs after
\* they were rebuilt.

Visited(s) ==
  /\ ~s.private /\ s.active \in PublicTabs
  /\ s.page[s.active] # NewTabPage /\ s.page[s.active] # s.last[s.active]

NotifyObservers(s, v) ==
  /\ views' = v
  /\ IF Visited(s)
       THEN /\ session' = [s EXCEPT !.last[s.active] = s.page[s.active]]
            /\ data' = [data EXCEPT !.history =
                          RecordVisit(@, s.page[s.active], CurrentWorkspaceId(s))]
            /\ Save({"history"})
       ELSE session' = s /\ UNCHANGED <<data, files, saves>>

SessionChanges(s) ==
  /\ Turn
  /\ NotifyObservers(s, Observed(views, s, data))
  /\ UNCHANGED <<store, effect, presses>>

SelectTab(t) ==
  /\ ~session.private /\ session.active # t
  /\ SessionChanges([session EXCEPT !.active = t])

\* A page may commit in a tab that is not active, a persistent one in private mode too.
CommitPage(t, url) ==
  /\ t \in PublicTabs \/ session.private
  /\ SessionChanges([session EXCEPT !.page[t] = url])

SwitchToPrivate ==
  /\ ~session.private
  /\ SessionChanges([session EXCEPT !.private = TRUE, !.active = PrivateTab])

SwitchFromPrivate ==
  /\ session.private
  /\ SessionChanges([session EXCEPT !.private = FALSE, !.active = FirstTab,
                                    !.page[PrivateTab] = NewTabPage])

-----------------------------------------------------------------------------
\* Drawers: showing one hides the other and rebuilds what it shows.

Shown(v, drawer) ==
  LET open == [v EXCEPT !.drawer = drawer]
  IN  CASE drawer = "library" -> RebuildBody(open, session, data)
        [] drawer = "settings" -> RefreshFromSettings(open, data)
        [] OTHER -> open

ToggleTransientPanel(drawer) ==
  /\ Turn
  /\ views' = Shown(views, IF views.drawer = drawer THEN "none" ELSE drawer)
  /\ UNCHANGED <<session, data, store, effect, files, saves, presses>>

-----------------------------------------------------------------------------
\* Presses on the library panel and on the bookmarks bar.

PressButton(action) ==
  /\ Turn /\ Len(presses) < MaxPresses
  /\ presses' = Append(presses, action)
  /\ UNCHANGED <<session, data, store, views, effect, files, saves>>

PressLibrary ==
  /\ views.drawer = "library"
  /\ \/ \E kind \in {"ShowHistory", "ShowBookmarks", "Close"} : PressButton([kind |-> kind])
     \/ views.rows # <<>> /\ PressButton([kind |-> "OpenUrl"])
     \/ /\ views.removable
        /\ \E i \in DOMAIN views.rows :
             PressButton([kind |-> IF views.section = "history" THEN "RemoveHistory"
                             ELSE "RemoveBookmark",
                    id |-> views.rows[i].id, url |-> views.rows[i].url])
     \/ views.section = "history" /\ views.rows # <<>> /\ PressButton([kind |-> "ClearHistory"])

PressBar ==
  \/ PressButton([kind |-> "Add"])
  \/ views.bar # <<>> /\ PressButton([kind |-> "OpenBookmark"])

\* Mutant: the bar is not told.
NotifyNobody(v, d) == v

\* The callback DesktopApp gives the library.
NotifyDataChanged(v, d) == RebuildBar(v, session, d)

Changed(d, file) ==
  /\ data' = d
  /\ views' = RebuildBody(NotifyDataChanged(views, d), session, d)
  /\ Save({file})
  /\ UNCHANGED <<session, bounds>>

Nothing == UNCHANGED <<session, data, views, files, saves, bounds>>

\* Mutant: the mode is asked when the rows are made and not again.
RemoveUnasked(action) ==
  LET d == IF action.kind = "RemoveHistory"
             THEN [data EXCEPT !.history = RemoveEntry(@, action.id)]
             ELSE [data EXCEPT !.bookmarks = RemoveBookmark(@, action.id)]
  IN  IF d = data THEN Nothing
      ELSE Changed(d, IF action.kind = "RemoveHistory" THEN "history" ELSE "bookmarks")

RemoveRow(action) ==
  LET d == IF action.kind = "RemoveHistory"
             THEN [data EXCEPT !.history = RemoveEntry(@, action.id)]
             ELSE [data EXCEPT !.bookmarks = RemoveBookmark(@, action.id)]
  IN  IF IsPrivateContext(session) \/ d = data THEN Nothing
      ELSE Changed(d, IF action.kind = "RemoveHistory" THEN "history" ELSE "bookmarks")

ClearAll ==
  IF IsPrivateContext(session) THEN Nothing
  ELSE Changed([data EXCEPT !.history = ClearHistory(@)], "history")

\* Navigating notifies; its page commits later.  The library then hides.
LibraryHidden(v) == [v EXCEPT !.drawer = IF @ = "library" THEN "none" ELSE @]

NavigateTo ==
  /\ NotifyObservers(session, Observed(views, session, data))
  /\ UNCHANGED bounds

NavigateFromLibrary ==
  /\ NotifyObservers(session, LibraryHidden(Observed(views, session, data)))
  /\ UNCHANGED bounds

ShowSection(section) ==
  /\ views' = RebuildBody([views EXCEPT !.section = section], session, data)
  /\ UNCHANGED <<session, data, files, saves, bounds>>

CloseLibrary ==
  /\ views' = LibraryHidden(views)
  /\ UNCHANGED <<session, data, files, saves, bounds>>

\* The bar is rebuilt; an open library is not.
BookmarkCurrentPage ==
  LET t    == session.active
      made == AddBookmark(data.bookmarks, session.page[t], CurrentWorkspaceId(session),
                          bounds.clock + 1)
      d    == [data EXCEPT !.bookmarks = made]
  IN  IF t = PrivateTab THEN Nothing
      ELSE /\ data' = d
           /\ views' = RebuildBar(views, session, d)
           /\ Save(IF d = data THEN {} ELSE {"bookmarks"})
           /\ bounds' = IF d = data THEN bounds ELSE [bounds EXCEPT !.clock = @ + 1]
           /\ UNCHANGED session

HandlePress ==
  /\ presses # <<>>
  /\ presses' = Tail(presses)
  /\ LET action == Head(presses) IN
       \/ action.kind \in {"RemoveHistory", "RemoveBookmark"} /\ RemoveRow(action)
       \/ action.kind = "ClearHistory" /\ ClearAll
       \/ action.kind = "OpenUrl" /\ NavigateFromLibrary
       \/ action.kind = "OpenBookmark" /\ NavigateTo
       \/ action.kind = "ShowHistory" /\ ShowSection("history")
       \/ action.kind = "ShowBookmarks" /\ ShowSection("bookmarks")
       \/ action.kind = "Close" /\ CloseLibrary
       \/ action.kind = "Add" /\ BookmarkCurrentPage
  /\ UNCHANGED <<store, effect>>

-----------------------------------------------------------------------------
\* The settings panel.

Type(field, text) ==
  /\ Turn /\ views.drawer = "settings"
  /\ views' = [views EXCEPT !.typed[field] = text]
  /\ UNCHANGED <<session, data, store, effect, files, saves, presses>>

\* Every typed text is replaced by the setting of its field.
NotifySettingsChanged(d) ==
  /\ views' = RefreshFromSettings(views, d)
  /\ effect' = Applied(d.settings)

SettingsChange(settings) ==
  LET d == [data EXCEPT !.settings = settings] IN
  /\ data' = d
  /\ NotifySettingsChanged(d)
  /\ Save({"settings"})

PressSettings ==
  /\ Turn /\ views.drawer = "settings"
  /\ \/ SettingsChange(CycleValue(data.settings))
     \/ /\ views.typed.search # Empty
        /\ SettingsChange(SetSearchProvider(data.settings, views.typed.search))
     \/ SettingsChange(SetDownloadsDirectory(data.settings, views.typed.downloads))
     \/ SettingsChange(DefaultSettings)
  /\ UNCHANGED <<session, store, presses>>

-----------------------------------------------------------------------------
\* The sync store is written from memory alone.  A failed write leaves the file.
SyncLocalData ==
  /\ Turn /\ ~session.private
  /\ store' = PushRecords(store, data.bookmarks.items)
  /\ Save({"sync"})
  /\ UNCHANGED <<session, data, views, effect, presses>>

-----------------------------------------------------------------------------
\* Launching and stopping.

NewViews(s, d) ==
  RebuildBody(
    RefreshFromSettings(
      RebuildBar([drawer |-> "none", section |-> "history", rows |-> <<>>, removable |-> TRUE,
                  bar |-> <<>>, typed |-> [search |-> Empty, downloads |-> Empty]], s, d), d), s, d)

Loaded(docs) ==
  [history |-> LoadHistory(docs["history"]), bookmarks |-> LoadBookmarks(docs["bookmarks"]),
   settings |-> docs["settings"]]

NewSession(t) ==
  [active |-> t, private |-> FALSE, page |-> [u \in AllTabs |-> NewTabPage],
   last |-> [u \in AllTabs |-> NewTabPage]]

ProfileInit ==
  /\ files = [history |-> <<>>, bookmarks |-> <<>>, settings |-> DefaultSettings, sync |-> {}]
  /\ saves = [failed |-> {}, left |-> MaxFaults]
  /\ data = Loaded(files)
  /\ session = NewSession(FirstTab)
  /\ store = {}
  /\ views = NewViews(session, data)
  /\ effect = Applied(data.settings)
  /\ presses = <<>>
  /\ bounds = [runs |-> 1, turns |-> 0, clock |-> 0]

\* ShutdownRuntime writes history and bookmarks once more, except from private mode.
FilesLeft(clean) ==
  IF clean /\ ~session.private
    THEN [files EXCEPT !["history"] = data.history.entries, !["bookmarks"] = data.bookmarks.items]
    ELSE files

\* The sync provider starts with an empty memory: it loads only to answer a pull.
Relaunch(clean) ==
  /\ bounds.runs < MaxRuns
  /\ bounds' = [bounds EXCEPT !.runs = @ + 1]
  /\ files' = FilesLeft(clean)
  /\ saves' = [saves EXCEPT !.failed = {}]
  /\ data' = Loaded(files')
  /\ session' = NewSession(IF session.private THEN FirstTab ELSE session.active)
  /\ store' = {}
  /\ views' = NewViews(session', data')
  /\ effect' = Applied(data'.settings)
  /\ presses' = <<>>

ProfileNext ==
  \/ \E t \in PublicTabs : SelectTab(t)
  \/ \E t \in AllTabs, url \in Urls : CommitPage(t, url)
  \/ SwitchToPrivate \/ SwitchFromPrivate
  \/ \E drawer \in Drawers \ {"none"} : ToggleTransientPanel(drawer)
  \/ PressLibrary \/ PressBar \/ HandlePress
  \/ \E text \in Searches \cup {Empty} : Type("search", text)
  \/ \E text \in Directories \cup {Empty} : Type("downloads", text)
  \/ PressSettings
  \/ SyncLocalData
  \/ \E clean \in BOOLEAN : Relaunch(clean)

ProfileSpec == ProfileInit /\ [][ProfileNext]_profileVars

-----------------------------------------------------------------------------
\* The bar lists the bookmarks of the active tab's workspace after every call, a library
\* that is open lists nothing that is gone, and in private mode it lists no history
\* (RebuildBar, RebuildBody and who calls them).
ViewsAreSound ==
  /\ views.bar = ListBookmarks(data.bookmarks, CurrentWorkspaceId(session))
  /\ views.drawer = "library" =>
       /\ session.private /\ views.section = "history" => views.rows = <<>>
       /\ \A i \in DOMAIN views.rows :
            \/ \E j \in DOMAIN data.history.entries : data.history.entries[j] = views.rows[i]
            \/ \E j \in DOMAIN data.bookmarks.items : data.bookmarks.items[j] = views.rows[i]

\* Nothing done in private mode touches the history, the bookmarks or their files,
\* presses made before it and handled in it included (IsPrivateContext in HandleAction).
PrivateModeKeepsData ==
  [][session.private /\ session'.private =>
       /\ data'.history = data.history /\ data'.bookmarks = data.bookmarks
       /\ \A f \in {"history", "bookmarks", "sync"} : files'[f] = files[f]]_profileVars

\* A launch finds the data as the last run left it, quit or crash, unless the last save of
\* a file failed: nothing visited, made or changed is lost and nothing removed comes back.
RestartKeepsData ==
  [][bounds'.runs # bounds.runs =>
       /\ "history" \notin saves.failed => data'.history.entries = data.history.entries
       /\ "bookmarks" \notin saves.failed => data'.bookmarks.items = data.bookmarks.items
       /\ "settings" \notin saves.failed => data'.settings = data.settings]_profileVars

\* Whenever the sync store is written it holds every bookmark under its own id, those of
\* earlier runs included (SyncLocalData, and how ids are numbered after a launch).
SyncHoldsBookmarks ==
  [][files'["sync"] # files["sync"] =>
       \A i \in DOMAIN data.bookmarks.items :
         \E rec \in files'["sync"] :
           rec.id = data.bookmarks.items[i].id /\ rec.url = data.bookmarks.items[i].url]_profileVars

\* The chrome, the file broker and the new-tab pages always go by the settings of the
\* settings manager, whichever button changed them and after every launch.
SettingsInEffect == effect = Applied(data.settings)

\* What is shown and what is in effect is what the managers hold.
ViewsAreCurrent == ViewsAreSound /\ SettingsInEffect
=============================================================================
