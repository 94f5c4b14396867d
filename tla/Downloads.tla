----------------------------- MODULE Downloads -----------------------------
(***************************************************************************)
(* Downloads: the download handler of a tab, the transfer broker, the      *)
(* drawer that lists the transfers, and the disk.  Everything runs on the  *)
(* UI thread: a press in the drawer is posted and runs later, a control    *)
(* function reaches Chromium as another task.                              *)
(*                                                                         *)
(* External, as it is used here: a download is announced, may report       *)
(* before and after it has a path, then writes its file, and ends once;    *)
(* each change is reported at once, until the browser it began in is gone. *)
(***************************************************************************)
EXTENDS TransferOps, Sequences

CONSTANTS
  IdOrder,       \* the ids in the order Chromium gives them out
  Present,       \* paths where the user has a file
  Picks,         \* paths users pick in the save dialog
  Size,          \* bytes of a file; 0 when the server did not say
  Handled,       \* bound: the downloads whose rows are pressed and whose tab may close
  MaxPosted,     \* bound on presses not yet handled
  MaxCommands,   \* bound on control calls not yet run, per download
  EarlyPress,    \* whether a row may be pressed before the first report
  Simultaneous   \* whether a name may be resolved before the last one is on disk

\* The marks of disk name no download.
ASSUME IdsAssumption == Ids \cap {"free", "user"} = {}

VARIABLES
  transfers,   \* TransferBroker
  allowed,     \* FileBroker::allowed_directory_
  drawer,      \* DownloadsPanel: whether visible, and the rows last built
  posted,      \* presses posted to the UI thread
  stage,       \* "open", "windowless" (no drawer, no file broker), "shut" (no broker)
  download,    \* external: Chromium's downloads
  calls,       \* external: control calls on their way to Chromium
  disk         \* external: who wrote what is at a path; "free", "user" or a download

downloadVars == <<transfers, allowed, drawer, posted, stage, download, calls, disk>>

Over == {"complete", "cancelled", "interrupted"}
Idle == [phase |-> "none", paused |-> FALSE, path |-> NoPath, got |-> 0,
         reported |-> FALSE, attached |-> TRUE]

\* What a row shows, and so which buttons it has.
Rows(b) == [id \in DOMAIN b.items |->
              [state |-> b.items[id].state, got |-> b.items[id].got,
               named |-> b.items[id].path # NoPath]]

Buttons(row) ==
  CASE row.state = "InProgress" -> {"pause", "cancel"}
    [] row.state = "Paused"     -> {"resume", "cancel"}
    [] row.state = "Completed" /\ row.named -> {"open", "folder"}
    [] OTHER -> {}

\* Rows that cannot be seen or pressed are left out.
Hidden == [visible |-> FALSE, rows |-> <<>>]

DownloadsInit ==
  /\ transfers = EmptyBroker
  /\ allowed \in Dirs
  /\ drawer = Hidden
  /\ posted = <<>> /\ stage = "open"
  /\ download = [id \in Ids |-> Idle] /\ calls = [id \in Ids |-> <<>>]
  /\ disk = [p \in Paths |-> IF p \in Present THEN "user" ELSE "free"]

Taken == {p \in Paths : disk[p] # "free"}

-----------------------------------------------------------------------------
\* Every change of a transfer notifies the drawer, which rebuilds if it is shown.
TransfersBecome(b) ==
  /\ transfers' = b
  /\ drawer' = IF drawer.visible THEN [drawer EXCEPT !.rows = Rows(b)] ELSE drawer

\* OnDownloadUpdated, told of download id as d now stands.
OnDownloadUpdated(id, d) ==
  LET known == IF Known(transfers, id)
               THEN UpdateMetadata(transfers, id, d.path)
               ELSE RegisterTransfer(transfers, id, d.path, d.got)
      held  == IF d.phase \in Over THEN known ELSE SetControl(known, id)
  IN  CASE d.phase = "complete"    -> CompleteTransfer(held, id, Size)
        [] d.phase = "cancelled"   -> CancelTransfer(ClearControl(held, id), id)
        [] d.phase = "interrupted" -> FailTransfer(ClearControl(held, id), id)
        [] OTHER                   -> UpdateProgress(held, id, d.got)

\* Chromium reports download id as d, through a handler that still has a broker.
Report(id, d) ==
  IF d.attached /\ stage # "shut"
  THEN /\ download' = [download EXCEPT ![id] = [d EXCEPT !.reported = TRUE]]
       /\ TransfersBecome(OnDownloadUpdated(id, d))
  ELSE /\ download' = [download EXCEPT ![id] = d]
       /\ UNCHANGED <<transfers, drawer>>

-----------------------------------------------------------------------------
\* External: downloads.

Announce(id) ==
  /\ download[id].phase = "none"
  /\ \A i, j \in DOMAIN IdOrder :
       i < j /\ IdOrder[j] = id => download[IdOrder[i]].phase # "none"
  /\ stage # "shut"
  /\ download' = [download EXCEPT ![id].phase = "starting"]
  /\ UNCHANGED <<transfers, allowed, drawer, posted, stage, calls, disk>>

\* OnBeforeDownload: resolve a name, tell the broker, go on with that path or
\* with a dialog, where the user picks a free path or takes the download back.
ResolvedPath(name, made) ==
  LET target == ResolveCollision(Taken, allowed, name)
  IN  IF stage = "open" /\ made /\ IsPathContained(allowed, target) THEN target ELSE NoPath

OnBeforeDownload(id) ==
  LET d == download[id] IN
  /\ d.phase = "starting" /\ d.attached
  /\ Simultaneous \/ \A other \in Ids : download[other].phase # "named"
  /\ \E name \in Names, made \in BOOLEAN :
       LET path == ResolvedPath(name, made) IN
       /\ IF stage = "shut" THEN UNCHANGED <<transfers, drawer>>
          ELSE TransfersBecome(IF Known(transfers, id)
                               THEN UpdateMetadata(transfers, id, path)
                               ELSE RegisterTransfer(transfers, id, path, 0))
       /\ \E chosen \in IF path # NoPath THEN {path} ELSE Picks \ Taken :
            download' = [download EXCEPT ![id].phase = "named", ![id].path = chosen]
  /\ UNCHANGED <<allowed, posted, stage, calls, disk>>

BeginWriting(id) ==
  /\ download[id].phase = "named"
  /\ disk' = [disk EXCEPT ![download[id].path] = id]
  /\ Report(id, [download[id] EXCEPT !.phase = "running"])
  /\ UNCHANGED <<allowed, posted, stage, calls>>

Progress(id) ==
  /\ download[id].phase \notin Over \cup {"none"}
  /\ \E got \in {g \in {download[id].got, Size} : download[id].phase = "running" \/ g = 0} :
       Report(id, [download[id] EXCEPT !.got = got])
  /\ UNCHANGED <<allowed, posted, stage, calls, disk>>

\* A download that fails or is taken back leaves no file.
WithoutFile(id) == [p \in Paths |-> IF disk[p] = id THEN "free" ELSE disk[p]]

End(id) ==
  /\ \/ /\ download[id].phase = "running" /\ ~download[id].paused
        /\ Report(id, [download[id] EXCEPT !.phase = "complete"])
        /\ UNCHANGED disk
     \/ /\ download[id].phase \in {"starting", "named", "running"}
        /\ \E phase \in {"cancelled", "interrupted"} :
             Report(id, [download[id] EXCEPT !.phase = phase])
        /\ disk' = WithoutFile(id)
  /\ UNCHANGED <<allowed, posted, stage, calls>>

\* The browser the download began in is gone: nothing more is reported.
Orphan(id) ==
  /\ id \in Handled
  /\ download[id].phase \notin Over \cup {"none"} /\ download[id].attached
  /\ download' = [download EXCEPT ![id].attached = FALSE]
  /\ UNCHANGED <<transfers, allowed, drawer, posted, stage, calls, disk>>

\* A control call arrives; a download that is over ignores it.
RunCall(id) ==
  /\ calls[id] # <<>>
  /\ calls' = [calls EXCEPT ![id] = Tail(@)]
  /\ LET d == download[id]  call == Head(calls[id]) IN
     IF d.phase \in Over THEN UNCHANGED <<transfers, drawer, download, disk>>
     ELSE /\ Report(id, CASE call = "pause"  -> [d EXCEPT !.paused = TRUE]
                          [] call = "resume" -> [d EXCEPT !.paused = FALSE]
                          [] call = "cancel" -> [d EXCEPT !.phase = "cancelled"])
          /\ disk' = IF call = "cancel" THEN WithoutFile(id) ELSE disk
  /\ UNCHANGED <<allowed, posted, stage>>

UserDeletesFile ==
  /\ \E p \in Paths : /\ disk[p] \in Ids /\ download[disk[p]].phase = "complete"
                      /\ disk' = [disk EXCEPT ![p] = "free"]
  /\ UNCHANGED <<transfers, allowed, drawer, posted, stage, download, calls>>

-----------------------------------------------------------------------------
\* The drawer.

SetVisible(visible) ==
  drawer' = IF visible THEN [visible |-> TRUE, rows |-> Rows(transfers)] ELSE Hidden

Toggle ==
  /\ stage = "open"
  /\ SetVisible(~drawer.visible)
  /\ UNCHANGED <<transfers, allowed, posted, stage, download, calls, disk>>

PressRow ==
  /\ stage = "open" /\ drawer.visible /\ Len(posted) < MaxPosted
  /\ \/ posted' = Append(posted, [action |-> "close", id |-> CHOOSE id \in Ids : TRUE])
     \/ \E id \in Handled \cap DOMAIN drawer.rows : \E action \in Buttons(drawer.rows[id]) :
          /\ EarlyPress \/ download[id].reported
          /\ Len(calls[id]) + Len(posted) < MaxCommands
          /\ posted' = Append(posted, [action |-> action, id |-> id])
  /\ UNCHANGED <<transfers, allowed, drawer, stage, download, calls, disk>>

\* HandleAction.  Opening a file or its folder changes nothing here.
HandledTransfers(action, id) ==
  CASE action = "pause"  -> PauseTransfer(transfers, id)
    [] action = "resume" -> ResumeTransfer(transfers, id)
    [] action = "cancel" -> CancelTransfer(transfers, id)
    [] OTHER             -> transfers

HandleAction ==
  /\ posted # <<>> /\ stage = "open"
  /\ posted' = Tail(posted)
  /\ LET action == Head(posted).action  id == Head(posted).id
         b == HandledTransfers(action, id) IN
     /\ transfers' = b
     /\ calls' = [calls EXCEPT ![id] =
                    IF action \in {"pause", "resume", "cancel"}
                    THEN @ \o ControlCall(transfers, id, action) ELSE @]
     /\ drawer' = IF drawer.visible /\ action # "close"
                  THEN [visible |-> TRUE, rows |-> Rows(b)] ELSE Hidden
  /\ UNCHANGED <<allowed, stage, download, disk>>

ApplySettings ==
  /\ stage = "open"
  /\ allowed' \in Dirs \ {allowed}
  /\ UNCHANGED <<transfers, drawer, posted, stage, download, calls, disk>>

\* The drawer goes with the window, and takes posted presses and the file broker along.
WindowDestroyed ==
  /\ stage = "open"
  /\ stage' = "windowless" /\ posted' = <<>>
  /\ drawer' = Hidden
  /\ UNCHANGED <<transfers, allowed, download, calls, disk>>

ShutdownRuntime ==
  /\ stage = "windowless"
  /\ stage' = "shut"
  /\ UNCHANGED <<transfers, allowed, drawer, posted, download, calls, disk>>

User == Toggle \/ PressRow \/ ApplySettings \/ UserDeletesFile

DownloadsNext ==
  \/ \E id \in Ids : \/ Announce(id) \/ OnBeforeDownload(id) \/ BeginWriting(id)
                     \/ Progress(id) \/ End(id) \/ Orphan(id) \/ RunCall(id)
  \/ User
  \/ HandleAction
  \/ WindowDestroyed
  \/ ShutdownRuntime

\* Chromium runs its tasks; the user and the network owe nothing.
DownloadsSpec ==
  /\ DownloadsInit /\ [][DownloadsNext]_downloadVars
  /\ WF_downloadVars(HandleAction)
  /\ \A id \in Ids : WF_downloadVars(RunCall(id))

-----------------------------------------------------------------------------
\* While it is shown, the drawer shows what the broker knows, whichever of the
\* user, Chromium or a posted press changed it last.
RowsAreCurrent == drawer.visible => drawer.rows = Rows(transfers)

\* Once no control call is on its way, the broker says of a download that still
\* reports what Chromium makes of it; a cancelled one may have ended by itself
\* before the call arrived, and nothing brings a finished one back.
Agrees(state, d) ==
  CASE d.phase = "complete"    -> state \in {"Completed", "Cancelled"}
    [] d.phase = "cancelled"   -> state = "Cancelled"
    [] d.phase = "interrupted" -> state \in {"Failed", "Cancelled"}
    [] OTHER                   -> state = IF d.paused THEN "Paused" ELSE "InProgress"

SettledDownloadsAgree ==
  stage # "shut" =>
    \A id \in Ids :
      Known(transfers, id) /\ download[id].attached /\ calls[id] = <<>>
        => Agrees(transfers.items[id].state, download[id])

\* Drawer, broker and Chromium agree on every download.
DownloadsAgree == RowsAreCurrent /\ SettledDownloadsAgree

\* A file that a download finished, or that the user had there, is never written
\* over by another download.
FinishedFilesAreKept ==
  [][\A p \in Paths :
       (disk[p] = "user" \/ (disk[p] \in Ids /\ download[disk[p]].phase = "complete"))
         => disk'[p] \in {disk[p], "free"}]_downloadVars

\* A download the user cancelled does not go on behind the drawer's back, even
\* when its tab has been closed.
CancelStopsDownload ==
  \A id \in Ids :
    (Known(transfers, id) /\ transfers.items[id].state = "Cancelled")
      ~> (download[id].phase \in Over)
=============================================================================
