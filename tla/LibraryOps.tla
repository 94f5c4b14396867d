------------------------------ MODULE LibraryOps ------------------------------
(***************************************************************************)
(* What a profile keeps, as operators on its state: core::HistoryManager,  *)
(* core::BookmarkManager, core::SettingsManager and the store of           *)
(* core::LocalFilesystemSyncProvider.  A call that is refused leaves the   *)
(* state as it was; whether a call saved is up to the caller's module.     *)
(*                                                                         *)
(* A history is a record [entries, next]: the entries [id, url, ws], last  *)
(* visited first, and the next id.  Bookmarks are a record [items, next]:  *)
(* the bookmarks [id, url, ws, created] in the order they were made.  A    *)
(* sync store is a set of records [id, url, version, time].                *)
(***************************************************************************)
EXTENDS SeqFilter, SequencesExt, FiniteSetsExt, Integers

CONSTANTS
  HistoryLimit,  \* how many entries the library lists, 24 in the code
  Looks,         \* the looks the appearance buttons cycle through, the default first
  DefaultSearch, \* the search provider of new settings
  Empty,         \* an empty text
  DefaultDir     \* the download directory that stands for an empty setting

ASSUME LimitAssumption == HistoryLimit \in Nat

HasId(s, id) == \E i \in DOMAIN s : s[i].id = id
WithoutId(s, id) == Kept(s, {x \in ToSet(s) : x.id # id})
HighestId(s) == Max({0} \cup {s[i].id : i \in DOMAIN s})

-----------------------------------------------------------------------------
\* HistoryManager.

SamePage(h, url, ws) == {i \in DOMAIN h.entries : h.entries[i].url = url /\ h.entries[i].ws = ws}

\* A page visited before in the workspace moves to the front under its old id.
RecordVisit(h, url, ws) ==
  IF SamePage(h, url, ws) # {}
    THEN LET i == CHOOSE i \in SamePage(h, url, ws) : TRUE
         IN  [h EXCEPT !.entries = <<h.entries[i]>> \o RemoveAt(@, i)]
    ELSE [entries |-> <<[id |-> h.next, url |-> url, ws |-> ws]>> \o h.entries,
          next |-> h.next + 1]

RemoveEntry(h, id) == [h EXCEPT !.entries = WithoutId(@, id)]

ClearHistory(h) == [h EXCEPT !.entries = <<>>]

ListHistory(h) == SubSeq(h.entries, 1, Min({HistoryLimit, Len(h.entries)}))

LoadHistory(doc) == [entries |-> doc, next |-> HighestId(doc) + 1]

-----------------------------------------------------------------------------
\* BookmarkManager.

\* An address is bookmarked once, whatever the workspace.
IsBookmarked(m, url) == \E i \in DOMAIN m.items : m.items[i].url = url

AddBookmark(m, url, ws, now) ==
  IF IsBookmarked(m, url) THEN m
  ELSE [items |-> Append(m.items, [id |-> m.next, url |-> url, ws |-> ws, created |-> now]),
        next |-> m.next + 1]

RemoveBookmark(m, id) == [m EXCEPT !.items = WithoutId(@, id)]

ListBookmarks(m, ws) == Kept(m.items, {b \in ToSet(m.items) : b.ws = ws})

\* Mutant: numbering starts again at every launch.
LoadFromOne(doc) == [items |-> doc, next |-> 1]

LoadBookmarks(doc) == [items |-> doc, next |-> HighestId(doc) + 1]

-----------------------------------------------------------------------------
\* SettingsManager and what the panel computes for it.

DefaultSettings == [search |-> DefaultSearch, downloads |-> Empty, look |-> Looks[1]]

\* The theme, accent, wallpaper and new-tab buttons.
CycleValue(settings) ==
  LET i == CHOOSE i \in DOMAIN Looks : Looks[i] = settings.look
  IN  [settings EXCEPT !.look = Looks[(i % Len(Looks)) + 1]]

SetSearchProvider(settings, url) ==
  IF url = Empty THEN settings ELSE [settings EXCEPT !.search = url]

SetDownloadsDirectory(settings, dir) == [settings EXCEPT !.downloads = dir]

\* ApplySettings and ApplyAuraPreferences: the provider of the chrome, the directory
\* downloads are allowed in, and the look of new-tab pages.
Applied(settings) ==
  [search |-> settings.search, look |-> settings.look,
   downloads |-> IF settings.downloads = Empty THEN DefaultDir ELSE settings.downloads]

-----------------------------------------------------------------------------
\* LocalFilesystemSyncProvider.

SyncRecord(b) == [id |-> b.id, url |-> b.url, version |-> 1, time |-> b.created]

\* The higher version wins, and of equal ones the one that is not older.
Supersedes(rec, old) ==
  rec.version > old.version \/ (rec.version = old.version /\ rec.time >= old.time)

PushRecord(store, rec) ==
  IF \E old \in store : old.id = rec.id /\ ~Supersedes(rec, old) THEN store
  ELSE {old \in store : old.id # rec.id} \cup {rec}

\* The records of the bookmarks, pushed one after the other.
PushRecords(store, items) ==
  LET f[i \in 0 .. Len(items)] ==
        IF i = 0 THEN store ELSE PushRecord(f[i - 1], SyncRecord(items[i]))
  IN  f[Len(items)]
=============================================================================
