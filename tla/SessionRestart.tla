--------------------------- MODULE SessionRestart ---------------------------
(***************************************************************************)
(* A session and its focus queue over several runs of the program: what is *)
(* saved when (DesktopApp, SessionHistoryBridge, SessionPersistence), and  *)
(* what a run that quit or crashed leaves to the next.  The shell works on *)
(* persistent tabs throughout; private mode is module PrivateMode, how the *)
(* file gets to the disk is module AtomicFile, and the engine is the       *)
(* synchronous one.                                                        *)
(***************************************************************************)
EXTENDS FocusQueueOps, EngineContract

CONSTANTS
  InitialId,       \* "initial"
  NewIds,          \* ids the new-tab commands generate; their counters restart with the program
  PageUrls,        \* addresses that pages commit
  Marks,           \* states the user marks an item with, "Next" and "Later" in the code
  NoSnapshot,      \* no session file
  MaxTabs,         \* bound on the tabs open
  MaxItems,        \* bound on the items queued
  MaxActivations,  \* bound on last_activated_counter_ in one run of the program
  MaxLaunches      \* bound on the runs of the program

ASSUME IdsAssumption == {InitialId} \cup NewIds \subseteq TabIds
ASSUME PageUrlsAssumption == PageUrls \subseteq Urls
ASSUME MarksAssumption == Marks \subseteq {"Next", "Later"}
ASSUME MaxLaunchesAssumption == MaxLaunches \in Nat

VARIABLES
  session, queue,  \* the memory of the program, empty while it does not run
  disk,            \* the session file
  left,            \* what was in memory when the last run ended, until the next has started
  phase,           \* see ProgramPhases
  launches         \* runs of the program so far

vars == <<session, queue, disk, left, phase, launches>>

\* "off": before the first run, and after one that quit; "starting": up to the
\* first save; "aborted": crashed in that time.
ProgramPhases == {"off", "starting", "up", "crashed", "aborted"}

SavedTabRecords == [id: TabIds, url: Urls, title: Titles]

Snapshots ==
  [clean: BOOLEAN, active: TabIds \cup {NoTabId},
   tabs: Seq(SavedTabRecords), items: Seq(Items)]

ASSUME NoSnapshotAssumption == NoSnapshot \notin Snapshots

TypeOK ==
  /\ IsSession(session)
  /\ queue \in Seq(Items)
  /\ {disk, left} \subseteq Snapshots \cup {NoSnapshot}
  /\ phase \in ProgramPhases
  /\ launches \in 0 .. MaxLaunches

EmptySession == SessionInit(ContractInit)

Init ==
  /\ session = EmptySession /\ queue = <<>>
  /\ disk = NoSnapshot /\ left = NoSnapshot /\ phase = "off" /\ launches = 0

-----------------------------------------------------------------------------
\* SessionPersistence.

SavedTab(s, t) == [id |-> t, url |-> s.tab[t].url, title |-> s.tab[t].title]
SavedTabs(s) == [i \in DOMAIN s.tabs |-> SavedTab(s, s.tabs[i])]

\* Mutant: the items of closed tabs are left out.
SnapshotOfBound(s, q, clean) ==
  [clean |-> clean, active |-> s.active, tabs |-> SavedTabs(s),
   items |-> SelectSeq(q, LAMBDA item : item.tab # NoTabId)]

CaptureSnapshot(s, q, clean) ==
  [clean |-> clean, active |-> s.active, tabs |-> SavedTabs(s), items |-> q]

RestoreTarget(snap) ==
  IF \E i \in DOMAIN snap.tabs : snap.tabs[i].id = snap.active
    THEN snap.active ELSE snap.tabs[1].id

\* RestoreSession opens tab t of the snapshot.
Reopened(s, t, target) ==
  OpenTab(s, t.id, [url |-> t.url, title |-> t.title, eph |-> FALSE], t.id = target)

\* The tabs of RestoreSession, in an empty session.
RestoredTabs(snap) ==
  LET target == RestoreTarget(snap)
      f[i \in 0 .. Len(snap.tabs)] ==
        IF i = 0 THEN EmptySession ELSE Reopened(f[i - 1], snap.tabs[i], target)
  IN  ActivateTab(f[Len(snap.tabs)], target)

-----------------------------------------------------------------------------
\* Launches and ends.

\* wanted: the setting restore_session_on_startup.
Launch(wanted) ==
  /\ phase \in {"off", "crashed", "aborted"} /\ launches < MaxLaunches
  /\ launches' = launches + 1 /\ phase' = "starting"
  /\ IF wanted /\ disk # NoSnapshot /\ disk.tabs # <<>>
       THEN /\ session' = RestoredTabs(disk)
            /\ queue' = SynchronizeTabClosures(session', disk.items)
       ELSE /\ session' = OpenTab(EmptySession, InitialId,
                                  [url |-> NewTabUrl, title |-> "placeholder", eph |-> FALSE], TRUE)
            /\ queue' = <<>>
  /\ UNCHANGED <<disk, left>>

\* OnContextInitialized ends with the first save.
Started ==
  /\ phase = "starting" /\ phase' = "up"
  /\ disk' = CaptureSnapshot(session, queue, FALSE) /\ left' = NoSnapshot
  /\ UNCHANGED <<session, queue, launches>>

\* Not a save: what the user last had, for the next launch to be compared with.
Had(clean) ==
  [clean |-> clean, active |-> session.active, tabs |-> SavedTabs(session), items |-> queue]

MemoryIsLost == session' = EmptySession /\ queue' = <<>> /\ UNCHANGED launches

\* ShutdownRuntime.
Quit ==
  /\ phase = "up" /\ phase' = "off"
  /\ disk' = CaptureSnapshot(session, queue, TRUE)
  /\ left' = Had(TRUE)
  /\ MemoryIsLost

CrashWhileUp ==
  /\ phase = "up" /\ phase' = "crashed"
  /\ left' = Had(FALSE)
  /\ MemoryIsLost /\ UNCHANGED disk

CrashAtStartup ==
  /\ phase = "starting" /\ phase' = "aborted"
  /\ MemoryIsLost /\ UNCHANGED <<disk, left>>

-----------------------------------------------------------------------------
\* The session in use.  The focus sidebar observes a change before DesktopApp,
\* whose bridge saves it unless no tab is active.

\* Mutant: the change is saved before it has been made.
NotifiedLate(s) ==
  /\ session' = s /\ queue' = SynchronizeTabClosures(s, queue)
  /\ disk' = CaptureSnapshot(session, queue, FALSE)
  /\ UNCHANGED <<left, phase, launches>>

Notified(s) ==
  LET q == SynchronizeTabClosures(s, queue) IN
  /\ session' = s /\ queue' = q
  /\ disk' = IF s.active = NoTabId THEN disk ELSE CaptureSnapshot(s, q, FALSE)
  /\ UNCHANGED <<left, phase, launches>>

Up == phase = "up"
MayActivate == session.clock < MaxActivations
MayOpen == MayActivate /\ Len(session.tabs) < MaxTabs

OpenNewTab ==
  /\ Up /\ MayOpen
  /\ \E t \in NewIds \ Open(session) :
       Notified(OpenTab(session, t, [url |-> NewTabUrl, title |-> "placeholder", eph |-> FALSE], TRUE))

CloseTabCall ==
  /\ Up /\ MayActivate
  /\ \E t \in Open(session) : Notified(CloseTab(session, t, TRUE))

\* Nobody is notified when OpenTab refuses the id.
ReopenClosedTab ==
  /\ Up /\ MayOpen
  /\ session.restored + 1 \in DOMAIN RestoredId
  /\ LET s == ReopenLastClosedTab(session, "PersistentOnly") IN
     IF s.tabs # session.tabs THEN Notified(s)
     ELSE session' = s /\ UNCHANGED <<queue, disk, left, phase, launches>>

ActivateTabCall ==
  /\ Up /\ MayActivate
  /\ \E t \in Open(session) \ {session.active} : Notified(ActivateTab(session, t))

NavigationCommittedEvent ==
  /\ Up
  /\ \E t \in Open(session), url \in PageUrls : Notified(OnNavigationCommitted(session, t, url))

-----------------------------------------------------------------------------
\* The focus sidebar: changes of the queue alone are not saved.

QueueBecomes(q) == queue' = q /\ UNCHANGED <<session, disk, left, phase, launches>>

EnqueueActive ==
  /\ Up /\ Len(queue) < MaxItems
  /\ session.active # NoTabId => ItemId(session.active, Len(queue) + 1) \in ItemIds
  /\ QueueBecomes(EnqueueActiveTab(session, queue))

\* A tab the item gets is bound to it only after the save that opening it made.
ActivateItem(id) ==
  LET item   == Item(queue, id)
      opened == OpenFocusTab(session, item)
      q      == SynchronizeTabClosures(opened, queue)
  IN
  /\ Up /\ MayActivate /\ id \in ItemIdsOf(queue)
  /\ IF HasLiveTab(session, item)
       THEN /\ session.active # item.tab
            /\ Notified(ActivateTab(session, item.tab))
       ELSE /\ MayOpen /\ FreeTabId(session, id) \in TabIds
            /\ session' = opened
            /\ queue' = IF opened = session THEN queue ELSE SetTabId(q, id, opened.active)
            /\ disk' = IF opened = session THEN disk ELSE CaptureSnapshot(opened, q, FALSE)
            /\ UNCHANGED <<left, phase, launches>>

ArrangeItem ==
  /\ Up
  /\ \E id \in ItemIdsOf(queue) :
       \/ QueueBecomes(PromoteToNow(queue, id))
       \/ \E mark \in Marks : QueueBecomes(SetState(queue, id, mark))
       \/ QueueBecomes(RemoveItem(queue, id))

Next ==
  \/ \E wanted \in BOOLEAN : Launch(wanted)
  \/ Started
  \/ Quit
  \/ CrashWhileUp
  \/ CrashAtStartup
  \/ OpenNewTab
  \/ CloseTabCall
  \/ ReopenClosedTab
  \/ ActivateTabCall
  \/ NavigationCommittedEvent
  \/ EnqueueActive
  \/ \E id \in ItemIdsOf(queue) : ActivateItem(id)
  \/ ArrangeItem

Spec == Init /\ [][Next]_vars

-----------------------------------------------------------------------------
\* Ids name one item, and the item to do now is the first one, across arranging,
\* activating and restarts.
QueueSound == SoundQueue(queue)

\* An item names a tab only while that tab is open, so that a new tab of the same id
\* is never taken for it, after a crash between two saves too.
ItemsNameOpenTabs == ItemsAreBound(session, queue)

\* Session and queue stay sound together, over any calls and any launches.
RestartIsSound == TypeOK /\ QueueSound /\ ItemsNameOpenTabs

\* After a quit, or a crash at any point, a restoring launch shows the tabs that were
\* open, in their order, with their addresses and titles and the same one in front,
\* even if other launches were cut short in between.
TabsSurvive ==
  [][left # NoSnapshot /\ left.tabs # <<>> /\ Launch(TRUE) =>
       SavedTabs(session') = left.tabs /\ session'.active = left.active]_vars

\* A quit keeps the focus queue, bindings to tabs included, unless no tab is open.
QueueSurvivesQuit ==
  [][left # NoSnapshot /\ left.clean /\ left.tabs # <<>> /\ Launch(TRUE) => queue' = left.items]_vars

\* Activating an item brings its page to the front, in the tab it names from then on.
ActivationShowsItem ==
  [][\A i \in DOMAIN queue : ActivateItem(queue[i].id) =>
       /\ session'.active # NoTabId /\ queue'[i].tab = session'.active
       /\ ~HasLiveTab(session, queue[i]) =>
            session'.active \notin Open(session) /\ session'.tab[session'.active].url = queue[i].url]_vars
=============================================================================
