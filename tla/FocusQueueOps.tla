--------------------------- MODULE FocusQueueOps ---------------------------
(***************************************************************************)
(* core::FocusQueue (focus_queue.cpp) and core::FocusSessionController,    *)
(* which ties its items to the tabs of the session.  A queue is a sequence *)
(* of items [id, url, tab, state]; tab is NoTabId when the item has no     *)
(* tab.  A call that names no item leaves the queue as it was.             *)
(***************************************************************************)
EXTENDS SessionOps

CONSTANTS
  ItemIds,           \* ids a focus item can have
  ItemId(_, _),      \* ItemId(t, n) is "focus-<t>-<n>"
  FocusTabId(_, _)   \* FocusTabId(i, k) is "focus-tab-<i>", or with suffix "-<k>" for k > 0

\* Nothing gives an item the fourth state, Paused.
FocusStates == {"Now", "Next", "Later"}

Items == [id: ItemIds, url: Urls, tab: TabIds \cup {NoTabId}, state: FocusStates]

ItemIdsOf(q) == {q[i].id : i \in DOMAIN q}
Place(q, id) == CHOOSE i \in DOMAIN q : q[i].id = id
Item(q, id) == q[Place(q, id)]

Enqueue(q, item) == IF item.id \in ItemIdsOf(q) THEN q ELSE Append(q, item)

RemoveItem(q, id) == IF id \in ItemIdsOf(q) THEN RemoveAt(q, Place(q, id)) ELSE q

SetState(q, id, state) ==
  IF id \in ItemIdsOf(q) THEN [q EXCEPT ![Place(q, id)].state = state] ELSE q

\* Mutant: the binding goes to the first item that has none.
SetFirstTabId(q, id, t) ==
  LET free == {i \in DOMAIN q : q[i].tab = NoTabId}
  IN  IF free = {} THEN q ELSE [q EXCEPT ![CHOOSE i \in free : \A j \in free : i <= j].tab = t]

SetTabId(q, id, t) ==
  IF id \in ItemIdsOf(q) THEN [q EXCEPT ![Place(q, id)].tab = t] ELSE q

\* Positions count from 1.
Move(q, id, place) == InsertAt(RemoveAt(q, Place(q, id)), place, Item(q, id))

PromoteToNow(q, id) ==
  LET demoted == [i \in DOMAIN q |->
                    IF q[i].state = "Now" THEN [q[i] EXCEPT !.state = "Next"] ELSE q[i]]
  IN  IF id \in ItemIdsOf(q) THEN Move(SetState(demoted, id, "Now"), id, 1) ELSE q

-----------------------------------------------------------------------------
\* The item EnqueueActiveTab builds from the active tab.
ActiveItem(s, q) ==
  [id |-> ItemId(s.active, Len(q) + 1), url |-> s.tab[s.active].url,
   tab |-> s.active, state |-> "Next"]

EnqueueActiveTab(s, q) ==
  IF s.active = NoTabId \/ s.tab[s.active].eph THEN q ELSE Enqueue(q, ActiveItem(s, q))

\* Whether the item's tab can be shown as it is.
HasLiveTab(s, item) ==
  item.tab # NoTabId /\ Alive(s, item.tab) /\ ~s.tab[item.tab].eph

\* The first suffix that is free; among as many names as tabs and one, one is free.
FreeTabId(s, id) ==
  LET free == {k \in 0 .. Len(s.tabs) : ~IsOpen(s, FocusTabId(id, k))}
  IN  FocusTabId(id, CHOOSE k \in free : \A j \in free : k <= j)

\* The session after ActivateFocusItem; the queue is told of a new tab afterwards.
OpenFocusTab(s, item) ==
  OpenTab(s, FreeTabId(s, item.id), [url |-> item.url, title |-> "page", eph |-> FALSE], TRUE)

\* Mutant: only the first item whose tab closed is unbound.
SynchronizeOne(s, q) ==
  LET lost == {i \in DOMAIN q : q[i].tab # NoTabId /\ ~IsOpen(s, q[i].tab)}
  IN  IF lost = {} THEN q
      ELSE [q EXCEPT ![CHOOSE i \in lost : \A j \in lost : i <= j].tab = NoTabId]

SynchronizeTabClosures(s, q) ==
  [i \in DOMAIN q |->
     IF q[i].tab # NoTabId /\ ~IsOpen(s, q[i].tab) THEN [q[i] EXCEPT !.tab = NoTabId] ELSE q[i]]

-----------------------------------------------------------------------------
\* Ids name one item, and the item to do now is the first one.
SoundQueue(q) ==
  \A i, j \in DOMAIN q :
    /\ q[i].id = q[j].id => i = j
    /\ q[i].state = "Now" => i = 1

\* An item names a tab only if that tab is open.
ItemsAreBound(s, q) ==
  \A i \in DOMAIN q : q[i].tab # NoTabId => IsOpen(s, q[i].tab)

QueueInvariant(s, q) == q \in Seq(Items) /\ SoundQueue(q) /\ ItemsAreBound(s, q)
=============================================================================
