---------------------------- MODULE StorageProofs ----------------------------
(***************************************************************************)
(* Proofs about what the program keeps on disk: the documents it saves,    *)
(* the files it downloads, and the rules that remember answers to prompts. *)
(*                                                                         *)
(* AtomicFile: its files stay whole, and it implements the crash-safe      *)
(* register while rename works.                                            *)
(* Downloads: drawer, broker and Chromium agree once no control call is on *)
(* its way, and no download writes over a file.                            *)
(* Permissions: prompts, banner and address field are sound, and the rules *)
(* are those that are saved and never those of private mode.               *)
(* ProfileData: views and settings are those of the managers, a launch     *)
(* finds what was saved, and the sync store holds every bookmark.          *)
(***************************************************************************)
EXTENDS AtomicFile, Downloads, Permissions, ProfileData, SequenceLemmas, FiniteSetTheorems

-----------------------------------------------------------------------------
\* The atomic file.

\* Every file operation keeps the primary whole while rename works, keeps in the
\* temporary file what is about to be installed, and copies the primary aside.
LEMMA StepKeepsWhole == WholeFiles /\ [FileNext]_fileVars => WholeFiles'
<1> SUFFICES ASSUME WholeFiles, [FileNext]_fileVars PROVE WholeFiles'
  OBVIOUS
<1> USE FilesAssumption DEF WholeFiles, TypeOK, RenameWorks, BackupWorks, Files, Steps, Return
<1>1. CASE OpenFails BY <1>1 DEF OpenFails
<1>2. CASE \E v \in Contents : OpenTmp(v)
  <2>1. PICK v \in Contents : OpenTmp(v) BY <1>2
  <2>2. QED BY <2>1 DEF OpenTmp
<1>3. CASE WriteFails BY <1>3 DEF WriteFails
<1>4. CASE CloseTmp BY <1>4 DEF CloseTmp
<1>5. CASE SkipBackup BY <1>5 DEF SkipBackup
<1>6. CASE StartBackup BY <1>6 DEF StartBackup
<1>7. CASE FinishBackup BY <1>7 DEF FinishBackup
<1>8. CASE Rename BY <1>8 DEF Rename
<1>9. CASE RenameFails BY <1>9 DEF RenameFails
<1>10. CASE FinishCopy BY <1>10 DEF FinishCopy
<1>11. CASE Crash BY <1>11 DEF Crash
<1>12. CASE UNCHANGED fileVars BY <1>12 DEF fileVars
<1> HIDE FilesAssumption DEF WholeFiles, TypeOK, RenameWorks, BackupWorks, Files, Steps, Return
<1> QED
  BY <1>1, <1>2, <1>3, <1>4, <1>5, <1>6, <1>7, <1>8, <1>9, <1>10, <1>11, <1>12 DEF FileNext

\* The files of AtomicWriteFile stay whole wherever the program stops.
THEOREM FilesStayWhole == FileSpec => []WholeFiles
<1>1. FileInit => WholeFiles
  BY FilesAssumption DEF FileInit, WholeFiles, TypeOK, Files, Steps
<1>2. QED BY <1>1, StepKeepsWhole, PTL DEF FileSpec

\* What a reader gets when the primary is whole is the primary.
LEMMA ReadsPrimary ==
  ASSUME WholeFiles, RenameWorks PROVE ReadBack = target
BY FilesAssumption DEF WholeFiles, TypeOK, Files, ReadBack

\* What may fail does not change.
LEMMA FaultsLast == [FileNext]_fileVars => faults' = faults
BY DEF FileNext, fileVars, OpenFails, OpenTmp, WriteFails, CloseTmp, SkipBackup, StartBackup,
  FinishBackup, Rename, RenameFails, FinishCopy, Crash

\* Every step of a write is a step of the register or is not seen by a caller.
LEMMA StepIsRegisterStep ==
  ASSUME WholeFiles, WholeFiles', [FileNext]_fileVars, RenameWorks, RenameWorks'
  PROVE  [Promised!RNext]_(Promised!rvars)
<1>1. ReadBack = target BY ReadsPrimary
<1>2. ReadBack' = target'
  BY FilesAssumption DEF WholeFiles, TypeOK, Files, ReadBack
<1>3. content = Missing <=> step = "idle" BY DEF WholeFiles
<1> HIDE DEF ReadBack
<1> USE <1>1, <1>2, <1>3 DEF Return, Promised!rvars, Promised!RNext
<1>4. CASE OpenFails BY <1>4 DEF OpenFails, Promised!RReject
<1>5. CASE \E v \in Contents : OpenTmp(v) BY <1>5 DEF OpenTmp, Promised!RBegin
<1>6. CASE WriteFails BY <1>6 DEF WriteFails, Promised!RFail
<1>7. CASE CloseTmp BY <1>7 DEF CloseTmp
<1>8. CASE SkipBackup BY <1>8 DEF SkipBackup
<1>9. CASE StartBackup BY <1>9 DEF StartBackup
<1>10. CASE FinishBackup BY <1>10 DEF FinishBackup
<1>11. CASE Rename
  <2>1. tmp = content BY <1>11 DEF Rename, WholeFiles
  <2>2. QED BY <1>11, <2>1 DEF Rename, Promised!RSucceed
<1>12. CASE Crash BY <1>12 DEF Crash, Promised!RCrash
<1>13. CASE UNCHANGED fileVars BY <1>13 DEF fileVars
<1>14. CASE RenameFails BY <1>14 DEF RenameFails
<1>15. CASE FinishCopy BY <1>15 DEF FinishCopy, WholeFiles
<1> QED
  BY <1>4, <1>5, <1>6, <1>7, <1>8, <1>9, <1>10, <1>11, <1>12, <1>13, <1>14, <1>15, [FileNext]_fileVars DEF FileNext

\* AtomicWriteFile and ReadFileWithBackupRecovery keep their promise of an
\* atomic replacement as long as rename does not fail, whatever else fails.
THEOREM RegisterImplemented == FileSpec => ImplementsRegister
<1>1. FileInit => Promised!RInit
  BY FilesAssumption DEF FileInit, ReadBack, Promised!RInit
<1>2. WholeFiles /\ WholeFiles' /\ [FileNext]_fileVars => [RenameWorks => Promised!RNext]_(Promised!rvars)
  <2> SUFFICES ASSUME WholeFiles, WholeFiles', [FileNext]_fileVars, RenameWorks
               PROVE  [Promised!RNext]_(Promised!rvars)
    OBVIOUS
  <2>1. RenameWorks' BY FaultsLast DEF RenameWorks
  <2>2. QED BY <2>1, StepIsRegisterStep
<1>3. QED BY <1>1, <1>2, FilesStayWhole, PTL DEF FileSpec, ImplementsRegister

\* While the backup can be made, a sound primary is never replaced by a file
\* that leaves a reader with neither the old document nor the new one.
THEOREM SoundPrimaryKept == FileSpec => SoundPrimaryIsKept
<1>1. WholeFiles /\ [FileNext]_fileVars =>
        [BackupWorks /\ target \in Contents => ReadBack' = target \/ ReadBack' = content]_fileVars
  <2> SUFFICES ASSUME WholeFiles, FileNext, BackupWorks, target \in Contents
               PROVE  ReadBack' = target \/ ReadBack' = content
    BY DEF fileVars
  <2> USE FilesAssumption DEF BackupWorks, WholeFiles, TypeOK, Return, ReadBack
  <2>1. CASE OpenFails BY <2>1 DEF OpenFails
  <2>2. CASE \E v \in Contents : OpenTmp(v) BY <2>2 DEF OpenTmp
  <2>3. CASE WriteFails BY <2>3 DEF WriteFails
  <2>4. CASE CloseTmp BY <2>4 DEF CloseTmp
  <2>5. CASE SkipBackup BY <2>5 DEF SkipBackup
  <2>6. CASE StartBackup BY <2>6 DEF StartBackup
  <2>7. CASE FinishBackup BY <2>7 DEF FinishBackup
  <2>8. CASE Rename BY <2>8 DEF Rename
  <2>9. CASE RenameFails BY <2>9 DEF RenameFails
  <2>10. CASE FinishCopy BY <2>10 DEF FinishCopy
  <2>11. CASE Crash BY <2>11 DEF Crash
  <2> HIDE FilesAssumption DEF BackupWorks, WholeFiles, TypeOK, Return, ReadBack
  <2> QED
    BY <2>1, <2>2, <2>3, <2>4, <2>5, <2>6, <2>7, <2>8, <2>9, <2>10, <2>11 DEF FileNext
<1>2. QED BY <1>1, FilesStayWhole, PTL DEF FileSpec, SoundPrimaryIsKept

-----------------------------------------------------------------------------
\* Downloads.

AnyPath == Paths \cup Picks \cup {NoPath}
Items == [state: TransferState, path: AnyPath, got: {0, Size}]
Brokers == [items: UNION {[S -> Items] : S \in SUBSET Ids}, controls: SUBSET Ids]
DownloadRecords ==
  [phase: {"none", "starting", "named", "running"} \cup Over, paused: BOOLEAN, path: AnyPath,
   got: {0, Size}, reported: BOOLEAN, attached: BOOLEAN]
Controls == {"pause", "resume", "cancel"}

TransfersTypeOK ==
  /\ transfers \in Brokers
  /\ allowed \in Dirs
  /\ stage \in {"open", "windowless", "shut"}
  /\ download \in [Ids -> DownloadRecords]
  /\ calls \in [Ids -> Seq(Controls)]
  /\ posted \in Seq([action: Controls \cup {"close", "open", "folder"},
                     id: Ids \cup {CHOOSE id \in Ids : TRUE}])

\* The state the broker gave a transfer when it made this control call.
Wanted(call) ==
  CASE call = "pause" -> "Paused" [] call = "resume" -> "InProgress" [] OTHER -> "Cancelled"

\* What broker and Chromium know of one download: a download the broker has not heard
\* of has no control call under way, an active one that was reported can be controlled,
\* and the state of one that still reports is that of its last call, or Chromium's.
Follows(b, id, d, q, st) ==
  /\ ~Known(b, id) => q = <<>> /\ ~d.paused /\ ~d.reported
  /\ d.reported /\ IsActive(b, id) => id \in b.controls
  /\ Known(b, id) /\ d.attached /\ st # "shut" =>
       /\ d.phase \in Over \/ q = <<>> => Agrees(b.items[id].state, d)
       /\ d.phase \notin Over /\ q # <<>> => b.items[id].state = Wanted(q[Len(q)])

TransfersSafe ==
  /\ TransfersTypeOK
  /\ drawer \in {Hidden, [visible |-> TRUE, rows |-> Rows(transfers)]}
  /\ \A id \in Ids : Follows(transfers, id, download[id], calls[id], stage)
  /\ \A k \in DOMAIN posted : posted[k].action \in Controls =>
       posted[k].id \in Ids /\ download[posted[k].id].reported

-----------------------------------------------------------------------------
\* The broker's operations, one transfer at a time.

\* The broker c is b but for one transfer, which it knows.
Changes(b, c, id) ==
  /\ c \in Brokers /\ Known(c, id)
  /\ \A j \in Ids \ {id} : /\ Known(c, j) <=> Known(b, j)
                           /\ Known(b, j) => c.items[j] = b.items[j]
                           /\ j \in c.controls <=> j \in b.controls

LEMMA BrokerParts ==
  ASSUME NEW b \in Brokers
  PROVE  /\ DOMAIN b.items \in SUBSET Ids /\ b.items \in [DOMAIN b.items -> Items]
         /\ b.controls \in SUBSET Ids
         /\ b = [items |-> b.items, controls |-> b.controls]
<1>1. PICK S \in SUBSET Ids : b.items \in [S -> Items]
  BY DEF Brokers
<1> QED BY <1>1 DEF Brokers

LEMMA BrokerMade ==
  ASSUME NEW S \in SUBSET Ids, NEW f \in [S -> Items], NEW C \in SUBSET Ids
  PROVE  [items |-> f, controls |-> C] \in Brokers
<1>1. f \in UNION {[R -> Items] : R \in SUBSET Ids}
  OBVIOUS
<1> QED BY <1>1 DEF Brokers

LEMMA ChangesTwice ==
  ASSUME NEW a, NEW b, NEW c, NEW id, Changes(a, b, id), Changes(b, c, id)
  PROVE  Changes(a, c, id)
BY DEF Changes

\* Writing the entry of one transfer.
LEMMA EntryWritten ==
  ASSUME NEW b \in Brokers, NEW id \in Ids, Known(b, id), NEW it \in Items
  PROVE  LET c == [b EXCEPT !.items = [b.items EXCEPT ![id] = it]]
         IN  Changes(b, c, id) /\ c.items[id] = it /\ c.controls = b.controls
<1> DEFINE f == [b.items EXCEPT ![id] = it]
           c == [b EXCEPT !.items = f]
<1>1. /\ DOMAIN b.items \in SUBSET Ids /\ b.items \in [DOMAIN b.items -> Items]
      /\ b.controls \in SUBSET Ids /\ b = [items |-> b.items, controls |-> b.controls]
  BY BrokerParts
<1>2. f \in [DOMAIN b.items -> Items] /\ f[id] = it
  BY <1>1 DEF Known
<1>3. \A j \in DOMAIN b.items \ {id} : f[j] = b.items[j]
  BY <1>1
<1> HIDE DEF f
<1>4. c = [items |-> f, controls |-> b.controls]
  BY <1>1
<1>5. c \in Brokers
  BY <1>1, <1>2, <1>4, BrokerMade
<1>6. c.items = f /\ c.controls = b.controls
  BY <1>4
<1>7. DOMAIN f = DOMAIN b.items
  BY <1>2
<1> HIDE DEF c
<1>8. Changes(b, c, id)
  BY <1>3, <1>5, <1>6, <1>7 DEF Changes, Known
<1> QED BY <1>2, <1>6, <1>8 DEF c, f

LEMMA ItemFields ==
  ASSUME NEW it \in Items
  PROVE  /\ \A st \in TransferState : [it EXCEPT !.state = st] \in Items
                                      /\ [it EXCEPT !.state = st].state = st
         /\ \A p \in AnyPath : [it EXCEPT !.path = p] \in Items
                               /\ [it EXCEPT !.path = p].state = it.state
         /\ \A g \in {0, Size} : [it EXCEPT !.got = g] \in Items
                                 /\ [it EXCEPT !.got = g].state = it.state
BY DEF Items

LEMMA SetStateEffect ==
  ASSUME NEW b \in Brokers, NEW id \in Ids, Known(b, id), NEW st \in TransferState
  PROVE  LET c == SetState(b, id, st)
         IN  Changes(b, c, id) /\ c.items[id].state = st /\ c.controls = b.controls
<1> DEFINE it == [b.items[id] EXCEPT !.state = st]
<1>1. b.items[id] \in Items
  BY BrokerParts DEF Known
<1>2. it \in Items /\ it.state = st
  BY <1>1, ItemFields
<1>3. SetState(b, id, st) = [b EXCEPT !.items = [b.items EXCEPT ![id] = it]]
  BY DEF SetState
<1> HIDE DEF it
<1> QED BY <1>2, <1>3, EntryWritten

LEMMA UpdateMetadataEffect ==
  ASSUME NEW b \in Brokers, NEW id \in Ids, Known(b, id), NEW p \in AnyPath
  PROVE  LET c == UpdateMetadata(b, id, p)
         IN  Changes(b, c, id) /\ c.items[id].state = b.items[id].state
             /\ c.controls = b.controls
<1> DEFINE it == [b.items[id] EXCEPT !.path = p]
<1>1. b.items[id] \in Items
  BY BrokerParts DEF Known
<1>2. it \in Items /\ it.state = b.items[id].state
  BY <1>1, ItemFields
<1> DEFINE c == [b EXCEPT !.items = [b.items EXCEPT ![id] = it]]
<1>3. UpdateMetadata(b, id, p) \in {b, c}
  BY DEF UpdateMetadata
<1> HIDE DEF it
<1>4. Changes(b, c, id) /\ c.items[id] = it /\ c.controls = b.controls
  BY <1>2, EntryWritten
<1>5. Changes(b, b, id)
  BY DEF Changes
<1> HIDE DEF c
<1> QED BY <1>2, <1>3, <1>4, <1>5

LEMMA UpdateProgressEffect ==
  ASSUME NEW b \in Brokers, NEW id \in Ids, Known(b, id), NEW g \in {0, Size}
  PROVE  LET c == UpdateProgress(b, id, g)
         IN  Changes(b, c, id) /\ c.items[id].state = b.items[id].state
             /\ c.controls = b.controls
<1> DEFINE it == [b.items[id] EXCEPT !.got = g]
<1>1. b.items[id] \in Items
  BY BrokerParts DEF Known
<1>2. it \in Items /\ it.state = b.items[id].state
  BY <1>1, ItemFields
<1> DEFINE c == [b EXCEPT !.items = [b.items EXCEPT ![id] = it]]
<1>3. UpdateProgress(b, id, g) \in {b, c}
  BY DEF UpdateProgress
<1> HIDE DEF it
<1>4. Changes(b, c, id) /\ c.items[id] = it /\ c.controls = b.controls
  BY <1>2, EntryWritten
<1>5. Changes(b, b, id)
  BY DEF Changes
<1> HIDE DEF c
<1> QED BY <1>2, <1>3, <1>4, <1>5

LEMMA RegisterEffect ==
  ASSUME NEW b \in Brokers, NEW id \in Ids, ~Known(b, id), NEW p \in AnyPath, NEW g \in {0, Size}
  PROVE  LET c == RegisterTransfer(b, id, p, g)
         IN  Changes(b, c, id) /\ c.items[id].state = "InProgress" /\ c.controls = b.controls
<1> DEFINE it == [state |-> "InProgress", path |-> p, got |-> g]
           S == DOMAIN b.items \cup {id}
           f == [i \in S |-> IF i = id THEN it ELSE b.items[i]]
           c == RegisterTransfer(b, id, p, g)
<1>1. /\ DOMAIN b.items \in SUBSET Ids /\ b.items \in [DOMAIN b.items -> Items]
      /\ b.controls \in SUBSET Ids /\ b = [items |-> b.items, controls |-> b.controls]
  BY BrokerParts
<1>2. it \in Items /\ it.state = "InProgress"
  BY DEF Items, TransferState, Terminal
<1> HIDE DEF it
<1>3. /\ f \in [S -> Items] /\ S \in SUBSET Ids /\ f[id] = it
      /\ \A j \in DOMAIN b.items \ {id} : f[j] = b.items[j]
  BY <1>1, <1>2
<1>4. c = [items |-> f, controls |-> b.controls]
  BY <1>1 DEF RegisterTransfer, it
<1> HIDE DEF f
<1>5. c \in Brokers
  BY <1>1, <1>3, <1>4, BrokerMade
<1>6. c.items = f /\ c.controls = b.controls /\ DOMAIN f = S
  BY <1>3, <1>4
<1> HIDE DEF c
<1>7. Changes(b, c, id)
  BY <1>3, <1>5, <1>6 DEF Changes, Known
<1> QED BY <1>2, <1>3, <1>6, <1>7 DEF c

LEMMA ControlEffect ==
  ASSUME NEW b \in Brokers, NEW id \in Ids, Known(b, id)
  PROVE  LET c == SetControl(b, id)
             e == ClearControl(b, id)
         IN  /\ Changes(b, c, id) /\ c.items = b.items /\ id \in c.controls
             /\ Changes(b, e, id) /\ e.items = b.items
<1> DEFINE c == SetControl(b, id)
           e == ClearControl(b, id)
<1>1. /\ DOMAIN b.items \in SUBSET Ids /\ b.items \in [DOMAIN b.items -> Items]
      /\ b.controls \in SUBSET Ids /\ b = [items |-> b.items, controls |-> b.controls]
  BY BrokerParts
<1>2. /\ c = [items |-> b.items, controls |-> b.controls \cup {id}]
      /\ e = [items |-> b.items, controls |-> b.controls \ {id}]
  BY <1>1 DEF SetControl, ClearControl
<1>3. c \in Brokers /\ e \in Brokers
  BY <1>1, <1>2, BrokerMade
<1> QED BY <1>2, <1>3 DEF Changes, Known

LEMMA FinishEffect ==
  ASSUME NEW b \in Brokers, NEW id \in Ids, Known(b, id), NEW st \in Terminal
  PROVE  LET c == Finish(b, id, st)
         IN  /\ Changes(b, c, id)
             /\ c.items[id].state = IF IsActive(b, id) THEN st ELSE b.items[id].state
<1> DEFINE e == SetState(b, id, st)
<1>0. st \in TransferState
  BY DEF TransferState
<1>1. Changes(b, e, id) /\ e.items[id].state = st
  BY <1>0, SetStateEffect
<1>2. Finish(b, id, st) = IF IsActive(b, id) THEN ClearControl(e, id) ELSE b
  BY DEF Finish
<1> HIDE DEF e
<1>3. e \in Brokers /\ Known(e, id)
  BY <1>1 DEF Changes
<1>4. Changes(e, ClearControl(e, id), id) /\ ClearControl(e, id).items = e.items
  BY <1>3, ControlEffect
<1>5. Changes(b, ClearControl(e, id), id)
  BY <1>1, <1>4, ChangesTwice
<1> QED BY <1>1, <1>2, <1>4, <1>5 DEF Changes

LEMMA CompleteEffect ==
  ASSUME NEW b \in Brokers, NEW id \in Ids, Known(b, id)
  PROVE  LET c == CompleteTransfer(b, id, Size)
         IN  /\ Changes(b, c, id)
             /\ c.items[id].state = IF IsActive(b, id) THEN "Completed" ELSE b.items[id].state
<1> DEFINE e == Finish(b, id, "Completed")
           g == IF Size > 0 THEN Size ELSE e.items[id].got
           it == [e.items[id] EXCEPT !.got = g]
<1>1. /\ Changes(b, e, id)
      /\ e.items[id].state = IF IsActive(b, id) THEN "Completed" ELSE b.items[id].state
  BY FinishEffect DEF Terminal
<1>2. CompleteTransfer(b, id, Size) =
        IF IsActive(b, id) THEN [e EXCEPT !.items = [e.items EXCEPT ![id] = it]] ELSE b
  BY DEF CompleteTransfer
<1> HIDE DEF e
<1>3. e \in Brokers /\ Known(e, id)
  BY <1>1 DEF Changes
<1>4. e.items[id] \in Items
  BY <1>3, BrokerParts DEF Known
<1>5. g \in {0, Size}
  BY <1>4 DEF Items
<1> HIDE DEF g
<1>6. it \in Items /\ it.state = e.items[id].state
  BY <1>4, <1>5, ItemFields
<1> HIDE DEF it
<1> DEFINE c == [e EXCEPT !.items = [e.items EXCEPT ![id] = it]]
<1>7. Changes(e, c, id) /\ c.items[id] = it
  BY <1>3, <1>6, EntryWritten
<1> HIDE DEF c
<1>8. Changes(b, c, id)
  BY <1>1, <1>7, ChangesTwice
<1>9. CompleteTransfer(b, id, Size) = IF IsActive(b, id) THEN c ELSE b
  BY <1>2 DEF c
<1> QED BY <1>1, <1>6, <1>7, <1>8, <1>9 DEF Changes

-----------------------------------------------------------------------------
\* What Chromium reports.

\* The state of a transfer before a report, which registers one it does not know.
StateBefore(id) ==
  IF Known(transfers, id) THEN transfers.items[id].state ELSE "InProgress"

LEMMA UpdatedEffect ==
  ASSUME transfers \in Brokers, NEW id \in Ids, NEW d \in DownloadRecords
  PROVE  LET c == OnDownloadUpdated(id, d)
             s == StateBefore(id)
         IN  /\ Changes(transfers, c, id)
             /\ d.phase \notin Over => c.items[id].state = s /\ id \in c.controls
             /\ d.phase \in Over => c.items[id].state =
                  IF s \in Terminal THEN s
                  ELSE CASE d.phase = "complete" -> "Completed"
                         [] d.phase = "cancelled" -> "Cancelled"
                         [] OTHER -> "Failed"
<1> DEFINE b == IF Known(transfers, id) THEN UpdateMetadata(transfers, id, d.path)
                ELSE RegisterTransfer(transfers, id, d.path, d.got)
           h == IF d.phase \in Over THEN b ELSE SetControl(b, id)
           c == OnDownloadUpdated(id, d)
           s == StateBefore(id)
<1>1. d.path \in AnyPath /\ d.got \in {0, Size}
      /\ d.phase \in {"none", "starting", "named", "running"} \cup Over
  BY DEF DownloadRecords
<1>2. Changes(transfers, b, id) /\ b.items[id].state = s
  <2>1. CASE Known(transfers, id)
    BY <1>1, <2>1, UpdateMetadataEffect DEF StateBefore
  <2>2. CASE ~Known(transfers, id)
    BY <1>1, <2>2, RegisterEffect DEF StateBefore
  <2> QED BY <2>1, <2>2
<1>3. c = CASE d.phase = "complete" -> CompleteTransfer(h, id, Size)
            [] d.phase = "cancelled" -> CancelTransfer(ClearControl(h, id), id)
            [] d.phase = "interrupted" -> FailTransfer(ClearControl(h, id), id)
            [] OTHER -> UpdateProgress(h, id, d.got)
  BY DEF OnDownloadUpdated
<1> HIDE DEF b, c, s
<1>4. b \in Brokers /\ Known(b, id)
  BY <1>2 DEF Changes
<1>5. /\ Changes(b, h, id) /\ h.items = b.items
      /\ d.phase \notin Over => id \in h.controls
  <2>1. Changes(b, b, id)
    BY <1>4 DEF Changes
  <2>2. Changes(b, SetControl(b, id), id) /\ SetControl(b, id).items = b.items
        /\ id \in SetControl(b, id).controls
    BY <1>4, ControlEffect
  <2> QED BY <2>1, <2>2
<1> HIDE DEF h
<1>6. h \in Brokers /\ Known(h, id) /\ Changes(transfers, h, id) /\ h.items[id].state = s
  BY <1>2, <1>5, ChangesTwice DEF Changes
<1> DEFINE e == ClearControl(h, id)
<1>7. Changes(h, e, id) /\ e.items = h.items
  BY <1>6, ControlEffect
<1>8. e \in Brokers /\ Known(e, id) /\ Changes(transfers, e, id) /\ e.items[id].state = s
  BY <1>6, <1>7, ChangesTwice DEF Changes
<1>9. (IsActive(h, id) <=> s \notin Terminal) /\ (IsActive(e, id) <=> s \notin Terminal)
  BY <1>6, <1>8 DEF IsActive
<1> HIDE DEF e
<1>10. CASE d.phase = "complete"
  <2>1. c = CompleteTransfer(h, id, Size)
    BY <1>3, <1>10
  <2>2. Changes(h, c, id)
        /\ c.items[id].state = IF IsActive(h, id) THEN "Completed" ELSE h.items[id].state
    BY <1>6, <2>1, CompleteEffect
  <2>3. Changes(transfers, c, id)
    BY <1>6, <2>2, ChangesTwice
  <2> QED BY <1>6, <1>9, <1>10, <2>2, <2>3 DEF Over, c, s
<1>11. CASE d.phase = "cancelled"
  <2>1. c = Finish(e, id, "Cancelled")
    BY <1>3, <1>11 DEF CancelTransfer, e
  <2>2. Changes(e, c, id)
        /\ c.items[id].state = IF IsActive(e, id) THEN "Cancelled" ELSE e.items[id].state
    BY <1>8, <2>1, FinishEffect DEF Terminal
  <2>3. Changes(transfers, c, id)
    BY <1>8, <2>2, ChangesTwice
  <2> QED BY <1>8, <1>9, <1>11, <2>2, <2>3 DEF Over, c, s
<1>12. CASE d.phase = "interrupted"
  <2>1. c = Finish(e, id, "Failed")
    BY <1>3, <1>12 DEF FailTransfer, e
  <2>2. Changes(e, c, id)
        /\ c.items[id].state = IF IsActive(e, id) THEN "Failed" ELSE e.items[id].state
    BY <1>8, <2>1, FinishEffect DEF Terminal
  <2>3. Changes(transfers, c, id)
    BY <1>8, <2>2, ChangesTwice
  <2> QED BY <1>8, <1>9, <1>12, <2>2, <2>3 DEF Over, c, s
<1>13. CASE d.phase \notin Over
  <2>1. c = UpdateProgress(h, id, d.got)
    BY <1>3, <1>13 DEF Over
  <2>2. Changes(h, c, id) /\ c.items[id].state = h.items[id].state /\ c.controls = h.controls
    BY <1>1, <1>6, <2>1, UpdateProgressEffect
  <2>3. Changes(transfers, c, id)
    BY <1>6, <2>2, ChangesTwice
  <2> QED BY <1>5, <1>6, <1>13, <2>2, <2>3 DEF c, s
<1> QED BY <1>10, <1>11, <1>12, <1>13 DEF Over

\* Nothing is changed for the other downloads.
LEMMA OthersFollow ==
  ASSUME NEW b, NEW c, NEW id, Changes(b, c, id), NEW j \in Ids \ {id}, NEW d, NEW q, NEW st,
         Follows(b, j, d, q, st)
  PROVE  Follows(c, j, d, q, st)
BY DEF Changes, Follows, IsActive, Known

\* The drawer is rebuilt with the broker.
LEMMA DrawerFollows ==
  ASSUME NEW b, TransfersBecome(b),
         drawer \in {Hidden, [visible |-> TRUE, rows |-> Rows(transfers)]}
  PROVE  drawer' \in {Hidden, [visible |-> TRUE, rows |-> Rows(transfers')]}
<1>1. transfers' = b /\ drawer' = IF drawer.visible THEN [drawer EXCEPT !.rows = Rows(b)] ELSE drawer
  BY DEF TransfersBecome
<1>2. CASE drawer = Hidden
  BY <1>1, <1>2 DEF Hidden
<1>3. CASE drawer = [visible |-> TRUE, rows |-> Rows(transfers)]
  <2>1. drawer' = [visible |-> TRUE, rows |-> Rows(b)]
    BY <1>1, <1>3
  <2> QED BY <1>1, <2>1 DEF Rows
<1> QED BY <1>2, <1>3

\* What a report may say of a download: that it goes on as its last control call or
\* Chromium has it, or how it ended.
Reportable(id, d, q) ==
  /\ d \in DownloadRecords
  /\ d.attached = download[id].attached /\ d.reported = download[id].reported
  /\ ~Known(transfers, id) => q = <<>> /\ ~d.paused
  /\ d.attached /\ stage # "shut" =>
       /\ d.phase \in Over => StateBefore(id) \in {"Paused", "InProgress", "Cancelled"}
       /\ d.phase \notin Over /\ q = <<>> => Agrees(StateBefore(id), d)
       /\ d.phase \notin Over /\ q # <<>> => StateBefore(id) = Wanted(q[Len(q)])

LEMMA ReportFollows ==
  ASSUME TransfersSafe, NEW id \in Ids, NEW d, NEW q, Reportable(id, d, q), Report(id, d)
  PROVE  /\ transfers' \in Brokers /\ download' \in [Ids -> DownloadRecords]
         /\ drawer' \in {Hidden, [visible |-> TRUE, rows |-> Rows(transfers')]}
         /\ \A j \in Ids : download[j].reported => download'[j].reported
         /\ \A j \in Ids \ {id} : Follows(transfers', j, download'[j], calls[j], stage)
         /\ Follows(transfers', id, download'[id], q, stage)
<1>1. /\ transfers \in Brokers /\ download \in [Ids -> DownloadRecords] /\ d \in DownloadRecords
      /\ drawer \in {Hidden, [visible |-> TRUE, rows |-> Rows(transfers)]}
      /\ \A j \in Ids : Follows(transfers, j, download[j], calls[j], stage)
  BY DEF TransfersSafe, TransfersTypeOK, Reportable
<1>2. CASE d.attached /\ stage # "shut"
  <2> DEFINE e == [d EXCEPT !.reported = TRUE]
             c == OnDownloadUpdated(id, d)
             s == StateBefore(id)
  <2>1. download' = [download EXCEPT ![id] = e] /\ TransfersBecome(c)
    BY <1>2 DEF Report
  <2>2. /\ e \in DownloadRecords /\ e.reported /\ e.attached
        /\ e.phase = d.phase /\ e.paused = d.paused
    BY <1>1, <1>2 DEF DownloadRecords
  <2>3. /\ Changes(transfers, c, id)
        /\ d.phase \notin Over => c.items[id].state = s /\ id \in c.controls
        /\ d.phase \in Over => c.items[id].state =
             IF s \in Terminal THEN s
             ELSE CASE d.phase = "complete" -> "Completed"
                    [] d.phase = "cancelled" -> "Cancelled"
                    [] OTHER -> "Failed"
    BY <1>1, UpdatedEffect
  <2>4. drawer' \in {Hidden, [visible |-> TRUE, rows |-> Rows(transfers')]} /\ transfers' = c
    <3> HIDE DEF c
    <3> QED BY <1>1, <2>1, DrawerFollows DEF TransfersBecome
  <2> HIDE DEF e, c, s
  <2>5. /\ download' \in [Ids -> DownloadRecords] /\ download'[id] = e
        /\ \A j \in Ids \ {id} : download'[j] = download[j]
    BY <1>1, <2>1, <2>2
  <2>6. c \in Brokers /\ Known(c, id)
    BY <2>3 DEF Changes
  <2>7. \A j \in Ids \ {id} : Follows(c, j, download'[j], calls[j], stage)
    BY <1>1, <2>3, <2>5, OthersFollow
  <2>8. Follows(c, id, e, q, stage)
    <3>1. CASE d.phase \notin Over
      BY <1>2, <2>2, <2>3, <2>6, <3>1 DEF Follows, Reportable, Agrees, s, Over
    <3>2. CASE d.phase \in Over
      <4>1. s \in {"Paused", "InProgress", "Cancelled"}
        BY <1>2, <3>2 DEF Reportable, s
      <4>2. Agrees(c.items[id].state, e) /\ c.items[id].state \in Terminal
        BY <2>2, <2>3, <3>2, <4>1 DEF Agrees, Over, Terminal
      <4> QED BY <2>2, <2>6, <3>2, <4>2 DEF Follows, IsActive
    <3> QED BY <3>1, <3>2
  <2>9. \A j \in Ids : download[j].reported => download'[j].reported
    BY <2>2, <2>5
  <2> QED BY <2>4, <2>5, <2>6, <2>7, <2>8, <2>9
<1>3. CASE ~(d.attached /\ stage # "shut")
  <2>1. download' = [download EXCEPT ![id] = d] /\ transfers' = transfers /\ drawer' = drawer
    BY <1>3 DEF Report
  <2>2. /\ download' \in [Ids -> DownloadRecords] /\ download'[id] = d
        /\ \A j \in Ids \ {id} : download'[j] = download[j]
    BY <1>1, <2>1
  <2>3. Follows(transfers, id, d, q, stage)
    BY <1>1, <1>3 DEF Follows, Reportable
  <2>4. \A j \in Ids : download[j].reported => download'[j].reported
    BY <2>2 DEF Reportable
  <2>5. Rows(transfers') = Rows(transfers)
    BY <2>1 DEF Rows
  <2> QED BY <1>1, <2>1, <2>2, <2>3, <2>4, <2>5
<1> QED BY <1>2, <1>3

-----------------------------------------------------------------------------
\* The steps of Chromium.

LEMMA ReportStep ==
  ASSUME TransfersSafe, NEW id \in Ids, NEW d, NEW q, Reportable(id, d, q), Report(id, d),
         UNCHANGED <<allowed, posted, stage>>,
         calls' \in [Ids -> Seq(Controls)], calls'[id] = q,
         \A j \in Ids \ {id} : calls'[j] = calls[j]
  PROVE  TransfersSafe'
<1>1. /\ transfers' \in Brokers /\ download' \in [Ids -> DownloadRecords]
      /\ drawer' \in {Hidden, [visible |-> TRUE, rows |-> Rows(transfers')]}
      /\ \A j \in Ids : download[j].reported => download'[j].reported
      /\ \A j \in Ids \ {id} : Follows(transfers', j, download'[j], calls[j], stage)
      /\ Follows(transfers', id, download'[id], q, stage)
  BY ReportFollows
<1>2. TransfersTypeOK'
  BY <1>1 DEF TransfersSafe, TransfersTypeOK
<1>3. \A j \in Ids : Follows(transfers', j, download'[j], calls'[j], stage')
  BY <1>1
<1>4. \A k \in DOMAIN posted' : posted'[k].action \in Controls =>
        posted'[k].id \in Ids /\ download'[posted'[k].id].reported
  BY <1>1 DEF TransfersSafe
<1>5. (drawer \in {Hidden, [visible |-> TRUE, rows |-> Rows(transfers)]})'
  BY <1>1
<1> QED BY <1>2, <1>3, <1>4, <1>5 DEF TransfersSafe

\* A download that has not ended stays what its last call or Chromium makes of it.
LEMMA StaysReportable ==
  ASSUME TransfersSafe, NEW id \in Ids, download[id].phase \notin Over,
         NEW d \in DownloadRecords, d.attached = download[id].attached,
         d.reported = download[id].reported, d.paused = download[id].paused
  PROVE  Reportable(id, d, calls[id])
<1>1. Follows(transfers, id, download[id], calls[id], stage)
  BY DEF TransfersSafe
<1>2. download[id] \in DownloadRecords /\ calls[id] \in Seq(Controls)
  BY DEF TransfersSafe, TransfersTypeOK
<1>3. calls[id] # <<>> => calls[id][Len(calls[id])] \in Controls
  BY <1>2, LenProperties, EmptySeq
<1>4. CASE Known(transfers, id)
  BY <1>1, <1>3, <1>4 DEF Follows, Reportable, StateBefore, Agrees, Wanted, Over, Controls
<1>5. CASE ~Known(transfers, id)
  BY <1>1, <1>5 DEF Follows, Reportable, StateBefore, Agrees, Over
<1> QED BY <1>4, <1>5

LEMMA ChromiumReports ==
  ASSUME TransfersSafe, NEW id \in Ids, BeginWriting(id) \/ Progress(id) \/ End(id)
  PROVE  TransfersSafe'
<1>1. download[id] \in DownloadRecords /\ calls \in [Ids -> Seq(Controls)]
  BY DEF TransfersSafe, TransfersTypeOK
<1>2. PICK d \in DownloadRecords :
        /\ Report(id, d) /\ d.attached = download[id].attached
        /\ d.reported = download[id].reported /\ d.paused = download[id].paused
  <2>1. CASE BeginWriting(id)
    <3> DEFINE d == [download[id] EXCEPT !.phase = "running"]
    <3>1. Report(id, d)
      BY <2>1 DEF BeginWriting
    <3>2. d \in DownloadRecords /\ d.attached = download[id].attached
          /\ d.reported = download[id].reported /\ d.paused = download[id].paused
      BY <1>1 DEF DownloadRecords
    <3> HIDE DEF d
    <3> QED BY <3>1, <3>2
  <2>2. CASE Progress(id)
    <3>1. PICK got \in {download[id].got, Size} : Report(id, [download[id] EXCEPT !.got = got])
      BY <2>2 DEF Progress
    <3> DEFINE d == [download[id] EXCEPT !.got = got]
    <3>2. d \in DownloadRecords /\ d.attached = download[id].attached
          /\ d.reported = download[id].reported /\ d.paused = download[id].paused
      BY <1>1 DEF DownloadRecords
    <3> HIDE DEF d
    <3> QED BY <3>1, <3>2 DEF d
  <2>3. CASE End(id)
    <3>1. PICK p \in Over : Report(id, [download[id] EXCEPT !.phase = p])
      BY <2>3 DEF End, Over
    <3> DEFINE d == [download[id] EXCEPT !.phase = p]
    <3>2. d \in DownloadRecords /\ d.attached = download[id].attached
          /\ d.reported = download[id].reported /\ d.paused = download[id].paused
      BY <1>1 DEF DownloadRecords
    <3> HIDE DEF d
    <3> QED BY <3>1, <3>2 DEF d
  <2> QED BY <2>1, <2>2, <2>3
<1>3. download[id].phase \notin Over
  BY DEF BeginWriting, Progress, End, Over
<1>4. Reportable(id, d, calls[id])
  BY <1>2, <1>3, StaysReportable
<1>5. UNCHANGED <<allowed, posted, stage, calls>>
  BY DEF BeginWriting, Progress, End
<1>6. /\ calls' \in [Ids -> Seq(Controls)] /\ calls'[id] = calls[id]
      /\ \A j \in Ids \ {id} : calls'[j] = calls[j]
  BY <1>1, <1>5
<1> QED BY <1>2, <1>4, <1>5, <1>6, ReportStep

LEMMA TailKeepsLast ==
  ASSUME NEW S, NEW q \in Seq(S), q # <<>>
  PROVE  /\ Head(q) \in S /\ Tail(q) \in Seq(S)
         /\ Tail(q) # <<>> => Tail(q)[Len(Tail(q))] = q[Len(q)] /\ q[Len(q)] \in S
         /\ Tail(q) = <<>> => q[Len(q)] = Head(q)
<1>1. Len(q) \in Nat \ {0} /\ q \in [1 .. Len(q) -> S]
  BY LenProperties, EmptySeq
<1>2. /\ Head(q) \in S /\ Tail(q) \in Seq(S) /\ Len(Tail(q)) = Len(q) - 1
      /\ \A i \in 1 .. Len(Tail(q)) : Tail(q)[i] = q[i + 1]
      /\ Head(q) = q[1]
  BY HeadTailProperties
<1>3. CASE Tail(q) = <<>>
  BY <1>1, <1>2, <1>3, EmptySeq
<1>4. CASE Tail(q) # <<>>
  <2>1. Len(Tail(q)) \in 1 .. Len(Tail(q))
    BY <1>1, <1>2, <1>4, EmptySeq
  <2> QED BY <1>1, <1>2, <1>4, <2>1
<1> QED BY <1>2, <1>3, <1>4

LEMMA CallsRun ==
  ASSUME TransfersSafe, NEW id \in Ids, RunCall(id)
  PROVE  TransfersSafe'
<1> DEFINE d == download[id]
           call == Head(calls[id])
           q == Tail(calls[id])
<1>1. d \in DownloadRecords /\ calls \in [Ids -> Seq(Controls)] /\ calls[id] # <<>>
      /\ calls[id] \in Seq(Controls)
  BY DEF TransfersSafe, TransfersTypeOK, RunCall
<1>2. /\ q \in Seq(Controls) /\ call \in Controls
      /\ q # <<>> => q[Len(q)] = calls[id][Len(calls[id])] /\ q[Len(q)] \in Controls
      /\ q = <<>> => calls[id][Len(calls[id])] = call
  BY <1>1, TailKeepsLast
<1>3. calls' = [calls EXCEPT ![id] = q] /\ UNCHANGED <<allowed, posted, stage>>
  BY DEF RunCall
<1> HIDE DEF q, call
<1>4. /\ calls' \in [Ids -> Seq(Controls)] /\ calls'[id] = q
      /\ \A j \in Ids \ {id} : calls'[j] = calls[j]
  BY <1>1, <1>2, <1>3
<1>5. Follows(transfers, id, d, calls[id], stage)
  BY DEF TransfersSafe
<1>6. Known(transfers, id)
  BY <1>1, <1>5 DEF Follows
<1>7. CASE d.phase \in Over
  <2>1. UNCHANGED <<transfers, drawer, download>>
    BY <1>7 DEF RunCall
  <2>2. Follows(transfers, id, d, q, stage)
    BY <1>5, <1>6, <1>7 DEF Follows
  <2>3. \A j \in Ids : Follows(transfers', j, download'[j], calls'[j], stage')
    BY <1>3, <1>4, <2>1, <2>2 DEF TransfersSafe
  <2>4. TransfersTypeOK'
    BY <1>3, <1>4, <2>1 DEF TransfersSafe, TransfersTypeOK
  <2>5. \A k \in DOMAIN posted' : posted'[k].action \in Controls =>
          posted'[k].id \in Ids /\ download'[posted'[k].id].reported
    BY <1>3, <2>1 DEF TransfersSafe
  <2>6. (drawer \in {Hidden, [visible |-> TRUE, rows |-> Rows(transfers)]})'
    BY <2>1 DEF TransfersSafe, Rows
  <2> QED BY <2>3, <2>4, <2>5, <2>6 DEF TransfersSafe
<1>8. CASE d.phase \notin Over
  <2> DEFINE e == CASE call = "pause"  -> [d EXCEPT !.paused = TRUE]
                    [] call = "resume" -> [d EXCEPT !.paused = FALSE]
                    [] call = "cancel" -> [d EXCEPT !.phase = "cancelled"]
  <2>1. Report(id, e)
    BY <1>8 DEF RunCall, call
  <2>2. /\ e \in DownloadRecords /\ e.attached = d.attached /\ e.reported = d.reported
        /\ e.phase \in Over <=> call = "cancel"
        /\ call = "pause" => e.paused
        /\ call = "resume" => ~e.paused
    <3>1. CASE call = "pause"
      BY <1>1, <1>8, <3>1 DEF DownloadRecords, Over
    <3>2. CASE call = "resume"
      BY <1>1, <1>8, <3>2 DEF DownloadRecords, Over
    <3>3. CASE call = "cancel"
      BY <1>1, <3>3 DEF DownloadRecords, Over
    <3> QED BY <1>2, <3>1, <3>2, <3>3 DEF Controls
  <2> HIDE DEF e
  <2>3. Reportable(id, e, q)
    <3>1. d.attached /\ stage # "shut" =>
            StateBefore(id) = Wanted(calls[id][Len(calls[id])])
      BY <1>1, <1>5, <1>6, <1>8 DEF Follows, StateBefore
    <3>2. e.attached /\ stage # "shut" =>
            /\ e.phase \in Over => StateBefore(id) \in {"Paused", "InProgress", "Cancelled"}
            /\ e.phase \notin Over /\ q = <<>> => Agrees(StateBefore(id), e)
            /\ e.phase \notin Over /\ q # <<>> => StateBefore(id) = Wanted(q[Len(q)])
      BY <1>2, <2>2, <3>1 DEF Wanted, Agrees, Over, Controls
    <3> QED BY <1>6, <2>2, <3>2 DEF Reportable
  <2> QED BY <1>3, <1>4, <2>1, <2>3, ReportStep
<1> QED BY <1>7, <1>8

\* Chromium's own record of one download changes, and the broker is not told.
LEMMA UntoldStep ==
  ASSUME TransfersSafe, NEW id \in Ids, NEW d \in DownloadRecords,
         d.paused = download[id].paused, d.reported = download[id].reported,
         d.attached => download[id].attached,
         d.phase \notin Over /\ download[id].phase \notin Over,
         download' = [download EXCEPT ![id] = d],
         UNCHANGED <<transfers, allowed, drawer, posted, stage, calls>>
  PROVE  TransfersSafe'
<1>1. /\ download \in [Ids -> DownloadRecords] /\ download' \in [Ids -> DownloadRecords]
      /\ download'[id] = d /\ \A j \in Ids \ {id} : download'[j] = download[j]
  BY DEF TransfersSafe, TransfersTypeOK
<1>2. \A j \in Ids : Follows(transfers, j, download[j], calls[j], stage)
  BY DEF TransfersSafe
<1>3. Follows(transfers, id, d, calls[id], stage)
  BY <1>2 DEF Follows, Agrees, Over
<1>4. \A j \in Ids : Follows(transfers', j, download'[j], calls'[j], stage')
  BY <1>1, <1>2, <1>3
<1>5. TransfersTypeOK'
  BY <1>1 DEF TransfersSafe, TransfersTypeOK
<1>6. \A k \in DOMAIN posted' : posted'[k].action \in Controls =>
        posted'[k].id \in Ids /\ download'[posted'[k].id].reported
  BY <1>1 DEF TransfersSafe
<1>7. (drawer \in {Hidden, [visible |-> TRUE, rows |-> Rows(transfers)]})'
  BY DEF TransfersSafe, Rows
<1> QED BY <1>4, <1>5, <1>6, <1>7 DEF TransfersSafe

-----------------------------------------------------------------------------
\* The name a download gets.


\* ResolveCollision returns a path of the directory, and a free one if there is one.
LEMMA CollisionResolved ==
  ASSUME NEW taken, NEW dir \in Dirs, NEW name \in Names
  PROVE  LET p == ResolveCollision(taken, dir, name)
         IN  /\ p \in Paths
             /\ (\E i \in 0 .. MaxCopy : [dir |-> dir, name |-> name, copy |-> i] \notin taken)
                  => p \notin taken
<1> DEFINE path(i) == [dir |-> dir, name |-> name, copy |-> i]
           free == {i \in 0 .. MaxCopy : path(i) \notin taken}
           n == IF free = {} THEN 0 ELSE CHOOSE i \in free : \A j \in free : i <= j
<1>1. free \in SUBSET Nat
  OBVIOUS
<1>2. free # {} => \E i \in free : \A j \in free : i <= j
  <2> HIDE DEF free
  <2> QED BY <1>1, LeastElement
<1>3. n \in 0 .. MaxCopy /\ (free # {} => n \in free)
  <2>1. free # {} => n \in free
    <3> HIDE DEF free
    <3> QED BY <1>2
  <2>2. free = {} => n = 0
    OBVIOUS
  <2>3. n \in free => n \in 0 .. MaxCopy
    <3> HIDE DEF n
    <3> QED OBVIOUS
  <2> HIDE DEF n, free
  <2> QED BY <2>1, <2>2, <2>3, MaxCopyAssumption
<1>4. ResolveCollision(taken, dir, name) = path(n)
  BY DEF ResolveCollision
<1>5. path(n) \in Paths
  <2> HIDE DEF n, free
  <2> QED BY <1>3 DEF Paths
<1>6. free # {} => path(n) \notin taken
  <2> HIDE DEF n
  <2> QED BY <1>3
<1>7. (\E i \in 0 .. MaxCopy : path(i) \notin taken) => free # {}
  OBVIOUS
<1> QED BY <1>4, <1>5, <1>6, <1>7

LEMMA PathResolved ==
  ASSUME allowed \in Dirs, NEW name \in Names, NEW made \in BOOLEAN
  PROVE  ResolvedPath(name, made) \in AnyPath
<1>1. ResolveCollision(Taken, allowed, name) \in Paths
  BY CollisionResolved
<1> QED BY <1>1 DEF ResolvedPath, AnyPath

LEMMA NameIsGiven ==
  ASSUME TransfersSafe, NEW id \in Ids, OnBeforeDownload(id)
  PROVE  TransfersSafe'
<1>1. PICK name \in Names, made \in BOOLEAN :
        LET path == ResolvedPath(name, made) IN
        /\ IF stage = "shut" THEN UNCHANGED <<transfers, drawer>>
           ELSE TransfersBecome(IF Known(transfers, id)
                                THEN UpdateMetadata(transfers, id, path)
                                ELSE RegisterTransfer(transfers, id, path, 0))
        /\ \E chosen \in IF path # NoPath THEN {path} ELSE Picks \ Taken :
             download' = [download EXCEPT ![id].phase = "named", ![id].path = chosen]
  BY DEF OnBeforeDownload
<1>2. /\ download[id].phase = "starting" /\ download[id].attached
      /\ UNCHANGED <<allowed, posted, stage, calls>>
  BY DEF OnBeforeDownload
<1> DEFINE path == ResolvedPath(name, made)
<1>3. path \in AnyPath
  BY PathResolved DEF TransfersSafe, TransfersTypeOK
<1> HIDE DEF path
<1>4. PICK chosen \in AnyPath :
        download' = [download EXCEPT ![id].phase = "named", ![id].path = chosen]
  BY <1>1, <1>3 DEF path, AnyPath
<1> DEFINE d == [download[id] EXCEPT !.phase = "named", !.path = chosen]
<1>5. download \in [Ids -> DownloadRecords] /\ download[id] \in DownloadRecords
  BY DEF TransfersSafe, TransfersTypeOK
<1>6. /\ d \in DownloadRecords /\ d.phase = "named" /\ d.paused = download[id].paused
      /\ d.reported = download[id].reported /\ d.attached = download[id].attached
  BY <1>5 DEF DownloadRecords
<1>7. download' = [download EXCEPT ![id] = d]
  BY <1>4
<1> HIDE DEF d
<1>8. CASE stage = "shut"
  BY <1>1, <1>2, <1>6, <1>7, <1>8, UntoldStep DEF Over
<1>9. CASE stage # "shut"
  <2> DEFINE b == IF Known(transfers, id) THEN UpdateMetadata(transfers, id, path)
                  ELSE RegisterTransfer(transfers, id, path, 0)
  <2>1. TransfersBecome(b)
    BY <1>1, <1>9 DEF path
  <2>2. Changes(transfers, b, id) /\ b.items[id].state = StateBefore(id)
        /\ b.controls = transfers.controls
    <3>1. transfers \in Brokers /\ 0 \in {0, Size}
      BY DEF TransfersSafe, TransfersTypeOK
    <3>2. CASE Known(transfers, id)
      BY <1>3, <3>1, <3>2, UpdateMetadataEffect DEF StateBefore
    <3>3. CASE ~Known(transfers, id)
      BY <1>3, <3>1, <3>3, RegisterEffect DEF StateBefore
    <3> QED BY <3>2, <3>3
  <2> HIDE DEF b
  <2>3. transfers' = b /\ b \in Brokers /\ Known(b, id)
    BY <2>1, <2>2 DEF TransfersBecome, Changes
  <2>4. drawer' \in {Hidden, [visible |-> TRUE, rows |-> Rows(transfers')]}
    BY <2>1, DrawerFollows DEF TransfersSafe
  <2>5. \A j \in Ids : Follows(transfers, j, download[j], calls[j], stage)
    BY DEF TransfersSafe
  <2>6. /\ download' \in [Ids -> DownloadRecords] /\ download'[id] = d
        /\ \A j \in Ids \ {id} : download'[j] = download[j]
    BY <1>5, <1>6, <1>7
  <2>7. Follows(b, id, d, calls[id], stage)
    <3>1. Follows(transfers, id, download[id], calls[id], stage)
      BY <2>5
    <3>2. CASE Known(transfers, id)
      BY <1>2, <1>6, <2>2, <2>3, <3>1, <3>2 DEF Follows, Agrees, Over, StateBefore, IsActive
    <3>3. CASE ~Known(transfers, id)
      BY <1>2, <1>6, <2>2, <2>3, <3>1, <3>3 DEF Follows, Agrees, Over, StateBefore, IsActive
    <3> QED BY <3>2, <3>3
  <2>8. \A j \in Ids \ {id} : Follows(b, j, download'[j], calls[j], stage)
    BY <2>2, <2>5, <2>6, OthersFollow
  <2>9. \A j \in Ids : Follows(transfers', j, download'[j], calls'[j], stage')
    BY <1>2, <2>3, <2>6, <2>7, <2>8
  <2>10. TransfersTypeOK'
    BY <1>2, <2>3, <2>6 DEF TransfersSafe, TransfersTypeOK
  <2>11. \A k \in DOMAIN posted' : posted'[k].action \in Controls =>
           posted'[k].id \in Ids /\ download'[posted'[k].id].reported
    BY <1>2, <1>6, <2>6 DEF TransfersSafe
  <2>12. (drawer \in {Hidden, [visible |-> TRUE, rows |-> Rows(transfers)]})'
    BY <2>4
  <2> QED BY <2>9, <2>10, <2>11, <2>12 DEF TransfersSafe
<1> QED BY <1>8, <1>9

LEMMA ChromiumGoesOn ==
  ASSUME TransfersSafe, NEW id \in Ids, Announce(id) \/ Orphan(id)
  PROVE  TransfersSafe'
<1>1. download[id] \in DownloadRecords
  BY DEF TransfersSafe, TransfersTypeOK
<1>2. CASE Announce(id)
  <2> DEFINE d == [download[id] EXCEPT !.phase = "starting"]
  <2>1. /\ d \in DownloadRecords /\ d.paused = download[id].paused
        /\ d.reported = download[id].reported /\ d.attached = download[id].attached
        /\ d.phase \notin Over /\ download[id].phase \notin Over
    BY <1>1, <1>2 DEF DownloadRecords, Over, Announce
  <2>2. download' = [download EXCEPT ![id] = d]
        /\ UNCHANGED <<transfers, allowed, drawer, posted, stage, calls>>
    BY <1>2 DEF Announce
  <2> HIDE DEF d
  <2> QED BY <2>1, <2>2, UntoldStep
<1>3. CASE Orphan(id)
  <2> DEFINE d == [download[id] EXCEPT !.attached = FALSE]
  <2>1. /\ d \in DownloadRecords /\ d.paused = download[id].paused
        /\ d.reported = download[id].reported /\ download[id].attached
        /\ d.phase \notin Over /\ download[id].phase \notin Over
    BY <1>1, <1>3 DEF DownloadRecords, Over, Orphan
  <2>2. download' = [download EXCEPT ![id] = d]
        /\ UNCHANGED <<transfers, allowed, drawer, posted, stage, calls>>
    BY <1>3 DEF Orphan
  <2> HIDE DEF d
  <2> QED BY <2>1, <2>2, UntoldStep
<1> QED BY <1>2, <1>3

-----------------------------------------------------------------------------
\* The drawer and the end of the window.

\* A press changes the transfer and calls its control, or does nothing.
LEMMA PressHandled ==
  ASSUME transfers \in Brokers, NEW id \in Ids, NEW action \in Controls
  PROVE  \/ /\ HandledTransfers(action, id) = transfers
            /\ ControlCall(transfers, id, action) = <<>>
         \/ /\ IsActive(transfers, id)
            /\ Changes(transfers, HandledTransfers(action, id), id)
            /\ HandledTransfers(action, id).items[id].state = Wanted(action)
            /\ action # "cancel" => HandledTransfers(action, id).controls = transfers.controls
            /\ id \in transfers.controls => ControlCall(transfers, id, action) = <<action>>
<1>1. CASE action = "pause"
  <2>1. CASE CanPause(transfers, id)
    <3>1. Known(transfers, id) /\ IsActive(transfers, id)
      BY <2>1 DEF CanPause, IsActive, Terminal
    <3>2. HandledTransfers(action, id) = SetState(transfers, id, "Paused")
      BY <1>1, <2>1 DEF HandledTransfers, PauseTransfer
    <3>3. "Paused" \in TransferState
      BY DEF TransferState
    <3>4. /\ Changes(transfers, HandledTransfers(action, id), id)
          /\ HandledTransfers(action, id).items[id].state = "Paused"
          /\ HandledTransfers(action, id).controls = transfers.controls
      BY <3>1, <3>2, <3>3, SetStateEffect
    <3> QED BY <1>1, <2>1, <3>1, <3>4 DEF Wanted, ControlCall
  <2>2. CASE ~CanPause(transfers, id)
    BY <1>1, <2>2 DEF HandledTransfers, PauseTransfer, ControlCall
  <2> QED BY <2>1, <2>2
<1>2. CASE action = "resume"
  <2>1. CASE CanResume(transfers, id)
    <3>1. Known(transfers, id) /\ IsActive(transfers, id)
      BY <2>1 DEF CanResume, IsActive, Terminal
    <3>2. HandledTransfers(action, id) = SetState(transfers, id, "InProgress")
      BY <1>2, <2>1 DEF HandledTransfers, ResumeTransfer
    <3>3. "InProgress" \in TransferState
      BY DEF TransferState
    <3>4. /\ Changes(transfers, HandledTransfers(action, id), id)
          /\ HandledTransfers(action, id).items[id].state = "InProgress"
          /\ HandledTransfers(action, id).controls = transfers.controls
      BY <3>1, <3>2, <3>3, SetStateEffect
    <3> QED BY <1>2, <2>1, <3>1, <3>4 DEF Wanted, ControlCall
  <2>2. CASE ~CanResume(transfers, id)
    BY <1>2, <2>2 DEF HandledTransfers, ResumeTransfer, ControlCall
  <2> QED BY <2>1, <2>2
<1>3. CASE action = "cancel"
  <2>1. HandledTransfers(action, id) = Finish(transfers, id, "Cancelled")
    BY <1>3 DEF HandledTransfers, CancelTransfer
  <2>2. CASE IsActive(transfers, id)
    <3>1. Known(transfers, id) /\ "Cancelled" \in Terminal
      BY <2>2 DEF IsActive, Terminal
    <3>2. /\ Changes(transfers, HandledTransfers(action, id), id)
          /\ HandledTransfers(action, id).items[id].state = "Cancelled"
      BY <2>1, <2>2, <3>1, FinishEffect
    <3> QED BY <1>3, <2>2, <3>2 DEF Wanted, ControlCall
  <2>3. CASE ~IsActive(transfers, id)
    BY <1>3, <2>1, <2>3 DEF Finish, ControlCall
  <2> QED BY <2>2, <2>3
<1> QED BY <1>1, <1>2, <1>3 DEF Controls

LEMMA PressesRun ==
  ASSUME TransfersSafe, HandleAction
  PROVE  TransfersSafe'
<1> DEFINE action == Head(posted).action
           id == Head(posted).id
           b == HandledTransfers(action, id)
           Presses == [action: Controls \cup {"close", "open", "folder"},
                       id: Ids \cup {CHOOSE i \in Ids : TRUE}]
<1>1. /\ transfers \in Brokers /\ download \in [Ids -> DownloadRecords]
      /\ calls \in [Ids -> Seq(Controls)] /\ posted \in Seq(Presses)
      /\ \A j \in Ids : Follows(transfers, j, download[j], calls[j], stage)
      /\ \A k \in DOMAIN posted : posted[k].action \in Controls =>
           posted[k].id \in Ids /\ download[posted[k].id].reported
  BY DEF TransfersSafe, TransfersTypeOK
<1>2. /\ posted # <<>> /\ stage = "open" /\ posted' = Tail(posted)
      /\ transfers' = b /\ UNCHANGED <<allowed, stage, download, disk>>
      /\ calls' = [calls EXCEPT ![id] =
                     IF action \in {"pause", "resume", "cancel"}
                     THEN calls[id] \o ControlCall(transfers, id, action) ELSE calls[id]]
      /\ drawer' = IF drawer.visible /\ action # "close"
                   THEN [visible |-> TRUE, rows |-> Rows(b)] ELSE Hidden
  BY DEF HandleAction
<1> HIDE DEF Presses
<1>3. /\ Tail(posted) \in Seq(Presses) /\ Len(posted) \in Nat \ {0}
      /\ Len(Tail(posted)) = Len(posted) - 1
      /\ \A k \in 1 .. Len(Tail(posted)) : Tail(posted)[k] = posted[k + 1]
      /\ Head(posted) = posted[1]
  BY <1>1, <1>2, HeadTailProperties, EmptySeq
<1>4. \A k \in DOMAIN posted' : posted'[k].action \in Controls =>
        posted'[k].id \in Ids /\ download'[posted'[k].id].reported
  <2>1. \A k \in DOMAIN Tail(posted) : k + 1 \in DOMAIN posted /\ Tail(posted)[k] = posted[k + 1]
    BY <1>1, <1>3, LenProperties
  <2> QED BY <1>1, <1>2, <2>1
<1>5. action \in Controls => id \in Ids /\ download[id].reported
  <2>1. 1 \in DOMAIN posted
    BY <1>1, <1>3, LenProperties
  <2> QED BY <1>1, <1>3, <2>1
<1>6. (drawer \in {Hidden, [visible |-> TRUE, rows |-> Rows(transfers)]})'
  BY <1>2 DEF Rows
<1> HIDE DEF action, id
<1>7. /\ transfers' \in Brokers /\ calls' \in [Ids -> Seq(Controls)]
      /\ \A j \in Ids : Follows(transfers', j, download[j], calls'[j], stage)
  <2>1. CASE action \notin Controls
    <3>1. b = transfers
      BY <2>1 DEF HandledTransfers, Controls
    <3>2. calls' = calls
      BY <1>1, <1>2, <2>1 DEF Controls
    <3> QED BY <1>1, <1>2, <3>1, <3>2
  <2>2. CASE action \in Controls
    <3> DEFINE q == calls[id] \o ControlCall(transfers, id, action)
    <3>1. id \in Ids /\ download[id].reported /\ calls[id] \in Seq(Controls)
      BY <1>1, <1>5, <2>2
    <3>2. Follows(transfers, id, download[id], calls[id], stage)
      BY <1>1, <3>1
    <3>3. \/ b = transfers /\ ControlCall(transfers, id, action) = <<>>
          \/ /\ IsActive(transfers, id) /\ Changes(transfers, b, id)
             /\ b.items[id].state = Wanted(action)
             /\ action # "cancel" => b.controls = transfers.controls
             /\ ControlCall(transfers, id, action) = <<action>>
      BY <1>1, <2>2, <3>1, <3>2, PressHandled DEF Follows
    <3> HIDE DEF b
    <3>4. CASE b = transfers /\ ControlCall(transfers, id, action) = <<>>
      <4>1. q = calls[id]
        BY <3>1, <3>4
      <4>2. calls' = calls
        BY <1>1, <1>2, <4>1
      <4> QED BY <1>1, <1>2, <3>4, <4>2
    <3>5. CASE /\ IsActive(transfers, id) /\ Changes(transfers, b, id)
               /\ b.items[id].state = Wanted(action)
               /\ action # "cancel" => b.controls = transfers.controls
               /\ ControlCall(transfers, id, action) = <<action>>
      <4>1. q \in Seq(Controls) /\ q # <<>> /\ q[Len(q)] = action
        <5>1. q = Append(calls[id], action)
          BY <2>2, <3>1, <3>5
        <5> QED BY <2>2, <3>1, <5>1, AppendProperties
      <4> HIDE DEF q
      <4>2. /\ calls' \in [Ids -> Seq(Controls)] /\ calls'[id] = q
            /\ \A j \in Ids \ {id} : calls'[j] = calls[j]
        <5>1. calls' = [calls EXCEPT ![id] = q]
          BY <1>2, <2>2 DEF Controls, q
        <5> QED BY <1>1, <3>1, <4>1, <5>1
      <4>3. b \in Brokers /\ Known(b, id)
        BY <3>5 DEF Changes
      <4>4. Follows(b, id, download[id], q, stage)
        <5>1. Known(transfers, id) /\ transfers.items[id].state \notin Terminal
          BY <3>5 DEF IsActive
        <5>2. download[id].attached => download[id].phase \notin Over
          BY <1>2, <3>2, <5>1 DEF Follows, Agrees, Over, Terminal
        <5>3. download[id].reported /\ IsActive(b, id) => id \in b.controls
          BY <2>2, <3>1, <3>2, <3>5 DEF Follows, IsActive, Wanted, Terminal, Controls
        <5> QED BY <3>5, <4>1, <4>3, <5>2, <5>3 DEF Follows
      <4>5. \A j \in Ids \ {id} : Follows(b, j, download[j], calls[j], stage)
        BY <1>1, <3>5, OthersFollow
      <4>6. \A j \in Ids : Follows(b, j, download[j], calls'[j], stage)
        BY <4>2, <4>4, <4>5
      <4> QED BY <1>2, <4>2, <4>3, <4>6 DEF b
    <3> QED BY <3>3, <3>4, <3>5
  <2> QED BY <2>1, <2>2
<1>8. TransfersTypeOK'
  BY <1>1, <1>2, <1>3, <1>7 DEF TransfersSafe, TransfersTypeOK, Presses
<1>9. \A j \in Ids : Follows(transfers', j, download'[j], calls'[j], stage')
  BY <1>2, <1>7
<1> QED BY <1>4, <1>6, <1>8, <1>9 DEF TransfersSafe

LEMMA RowIsPressed ==
  ASSUME ~EarlyPress, TransfersSafe, PressRow
  PROVE  TransfersSafe'
<1> DEFINE Presses == [action: Controls \cup {"close", "open", "folder"},
                       id: Ids \cup {CHOOSE i \in Ids : TRUE}]
<1>1. posted \in Seq(Presses) /\ DOMAIN transfers.items \in SUBSET Ids
  BY BrokerParts DEF TransfersSafe, TransfersTypeOK
<1>2. drawer.visible => drawer.rows = Rows(transfers)
  BY DEF TransfersSafe, Hidden
<1>3. PICK p \in Presses : /\ posted' = Append(posted, p)
                           /\ p.action \in Controls => p.id \in Ids /\ download[p.id].reported
  <2>1. CASE posted' = Append(posted, [action |-> "close", id |-> CHOOSE id \in Ids : TRUE])
    BY <2>1 DEF Controls
  <2>2. ASSUME NEW id \in Handled \cap DOMAIN drawer.rows,
               NEW action \in Buttons(drawer.rows[id]), download[id].reported,
               posted' = Append(posted, [action |-> action, id |-> id])
        PROVE  \E p \in Presses : /\ posted' = Append(posted, p)
                                  /\ p.action \in Controls => p.id \in Ids /\ download[p.id].reported
    <3>1. id \in Ids
      BY <1>1, <1>2 DEF Rows, PressRow
    <3>2. action \in Controls \cup {"close", "open", "folder"}
      BY DEF Buttons, Controls
    <3> QED BY <2>2, <3>1, <3>2
  <2> QED BY <2>1, <2>2 DEF PressRow
<1>4. UNCHANGED <<transfers, allowed, drawer, stage, download, calls>>
  BY DEF PressRow
<1> HIDE DEF Presses
<1>5. /\ posted' \in Seq(Presses) /\ Len(posted') = Len(posted) + 1
      /\ \A i \in 1 .. Len(posted) : posted'[i] = posted[i]
      /\ posted'[Len(posted) + 1] = p
  BY <1>1, <1>3, AppendProperties
<1>6. \A k \in DOMAIN posted' : \/ k \in DOMAIN posted /\ posted'[k] = posted[k]
                                \/ posted'[k] = p
  BY <1>1, <1>5, LenProperties
<1>7. \A k \in DOMAIN posted' : posted'[k].action \in Controls =>
        posted'[k].id \in Ids /\ download'[posted'[k].id].reported
  BY <1>3, <1>4, <1>6 DEF TransfersSafe
<1>8. TransfersTypeOK'
  BY <1>4, <1>5 DEF TransfersSafe, TransfersTypeOK, Presses
<1>9. (drawer \in {Hidden, [visible |-> TRUE, rows |-> Rows(transfers)]})'
  BY <1>4 DEF TransfersSafe, Rows
<1>10. \A j \in Ids : Follows(transfers', j, download'[j], calls'[j], stage')
  BY <1>4 DEF TransfersSafe
<1> QED BY <1>7, <1>8, <1>9, <1>10 DEF TransfersSafe

LEMMA WindowSteps ==
  ASSUME TransfersSafe,
         Toggle \/ ApplySettings \/ UserDeletesFile \/ WindowDestroyed \/ ShutdownRuntime
         \/ UNCHANGED downloadVars
  PROVE  TransfersSafe'
<1>1. /\ UNCHANGED <<transfers, download, calls>> /\ posted' \in {posted, <<>>}
      /\ allowed' \in Dirs /\ stage' \in {"open", "windowless", "shut"}
      /\ stage = "shut" => stage' = "shut"
      /\ drawer' \in {drawer, Hidden, [visible |-> TRUE, rows |-> Rows(transfers)]}
  BY DEF Toggle, SetVisible, ApplySettings, UserDeletesFile, WindowDestroyed, ShutdownRuntime,
         downloadVars, TransfersSafe, TransfersTypeOK
<1>2. TransfersTypeOK'
  BY <1>1, EmptySeq DEF TransfersSafe, TransfersTypeOK
<1>3. (drawer \in {Hidden, [visible |-> TRUE, rows |-> Rows(transfers)]})'
  BY <1>1 DEF TransfersSafe, Rows
<1>4. \A j \in Ids : Follows(transfers', j, download'[j], calls'[j], stage')
  BY <1>1 DEF TransfersSafe, Follows
<1>5. \A k \in DOMAIN posted' : posted'[k].action \in Controls =>
        posted'[k].id \in Ids /\ download'[posted'[k].id].reported
  <2>1. posted' = <<>> => DOMAIN posted' = {}
    OBVIOUS
  <2> QED BY <1>1, <2>1 DEF TransfersSafe
<1> QED BY <1>2, <1>3, <1>4, <1>5 DEF TransfersSafe

LEMMA TransfersAlways == ASSUME ~EarlyPress PROVE DownloadsSpec => []TransfersSafe
<1>1. DownloadsInit => TransfersSafe
  <2> SUFFICES ASSUME DownloadsInit PROVE TransfersSafe
    OBVIOUS
  <2>1. DOMAIN <<>> = {} /\ <<>> \in [{} -> Items]
    OBVIOUS
  <2>2. EmptyBroker \in Brokers /\ DOMAIN EmptyBroker.items = {}
    BY <2>1, BrokerMade DEF EmptyBroker
  <2>3. Idle \in DownloadRecords
    BY DEF Idle, DownloadRecords, AnyPath, Over
  <2>4. TransfersTypeOK
    BY <2>2, <2>3, EmptySeq DEF DownloadsInit, TransfersTypeOK
  <2>5. \A j \in Ids : Follows(transfers, j, download[j], calls[j], stage)
    BY <2>2 DEF DownloadsInit, Follows, Known, IsActive, Idle
  <2> QED BY <2>1, <2>4, <2>5 DEF DownloadsInit, TransfersSafe
<1>2. TransfersSafe /\ [DownloadsNext]_downloadVars => TransfersSafe'
  BY ChromiumReports, CallsRun, NameIsGiven, ChromiumGoesOn, PressesRun, RowIsPressed,
     WindowSteps DEF DownloadsNext, User
<1> QED BY <1>1, <1>2, PTL DEF DownloadsSpec

\* DownloadsAgree: however presses, control calls, reports and the end of the tab or the
\* window cross, the rows of the drawer are the broker's, and once no control call is
\* under way the broker's state of a download is what Chromium makes of it.
THEOREM DownloadsStayInAgreement ==
  ASSUME ~EarlyPress
  PROVE  DownloadsSpec => []DownloadsAgree
<1>1. TransfersSafe => DownloadsAgree
  <2> SUFFICES ASSUME TransfersSafe PROVE DownloadsAgree
    OBVIOUS
  <2>1. RowsAreCurrent
    BY DEF TransfersSafe, RowsAreCurrent, Hidden
  <2>2. SettledDownloadsAgree
    BY DEF TransfersSafe, SettledDownloadsAgree, Follows
  <2> QED BY <2>1, <2>2 DEF DownloadsAgree
<1> QED BY <1>1, TransfersAlways, PTL

-----------------------------------------------------------------------------
\* The disk.

\* There are more numbers to try than files and downloads that could have taken them.
EnoughNumbers ==
  /\ IsFiniteSet(Ids) /\ IsFiniteSet(Present)
  /\ Cardinality(Present) + Cardinality(Ids) <= MaxCopy + 1

\* A file of a download is the one it writes or has finished, files of the user were
\* there before, and the one download that waits to be written has a free path.
DiskSafe ==
  /\ allowed \in Dirs
  /\ download \in [Ids -> DownloadRecords]
  /\ calls \in [Ids -> Seq(Controls)]
  /\ disk \in [Paths -> {"free", "user"} \cup Ids]
  /\ \A p \in Paths : disk[p] = "user" => p \in Present
  /\ \A p \in Paths : disk[p] \in Ids =>
       download[disk[p]].path = p /\ download[disk[p]].phase \in {"running", "complete"}
  /\ \A i, j \in Ids : download[i].phase = "named" /\ download[j].phase = "named" => i = j
  /\ \A i \in Ids : download[i].phase = "named" /\ download[i].path \in Paths =>
       disk[download[i].path] = "free"

FilesKept ==
  \A p \in Paths :
    (disk[p] = "user" \/ (disk[p] \in Ids /\ download[disk[p]].phase = "complete"))
      => disk'[p] \in {disk[p], "free"}

\* A download that has no file leaves a number of every name for it.
LEMMA NumberIsLeft ==
  ASSUME DiskSafe, EnoughNumbers, NEW id \in Ids,
         download[id].phase \notin {"running", "complete"}, NEW dir \in Dirs, NEW name \in Names
  PROVE  \E i \in 0 .. MaxCopy : [dir |-> dir, name |-> name, copy |-> i] \notin Taken
<1> SUFFICES ASSUME \A i \in 0 .. MaxCopy : [dir |-> dir, name |-> name, copy |-> i] \in Taken
             PROVE  FALSE
  OBVIOUS
<1> DEFINE Rest == Ids \ {id}
           Owned == {download[j].path : j \in Rest}
           own == [j \in Rest |-> download[j].path]
           f == [i \in 0 .. MaxCopy |-> [dir |-> dir, name |-> name, copy |-> i]]
<1>1. Taken \in SUBSET (Present \cup Owned)
  <2> SUFFICES ASSUME NEW p \in Paths, disk[p] # "free" PROVE p \in Present \cup Owned
    BY DEF Taken
  <2>1. CASE disk[p] = "user"
    BY <2>1 DEF DiskSafe
  <2>2. CASE disk[p] \in Ids
    BY <2>2 DEF DiskSafe
  <2> QED BY <2>1, <2>2 DEF DiskSafe
<1>2. IsFiniteSet(Rest) /\ Cardinality(Rest) = Cardinality(Ids) - 1
  BY FS_RemoveElement DEF EnoughNumbers
<1>3. own \in Surjection(Rest, Owned)
  BY DEF Surjection
<1>4. IsFiniteSet(Owned) /\ Cardinality(Owned) <= Cardinality(Rest)
  <2> HIDE DEF Rest, Owned, own
  <2> QED BY <1>2, <1>3, FS_Surjection
<1> HIDE DEF Rest, Owned, own
<1>5. /\ IsFiniteSet(Present \cup Owned)
      /\ Cardinality(Present \cup Owned) =
           Cardinality(Present) + Cardinality(Owned) - Cardinality(Present \cap Owned)
  BY <1>4, FS_Union DEF EnoughNumbers
<1>6. IsFiniteSet(Present \cap Owned)
  BY <1>4, FS_Intersection
<1>7. /\ Cardinality(Present) \in Nat /\ Cardinality(Owned) \in Nat /\ Cardinality(Ids) \in Nat
      /\ Cardinality(Present \cap Owned) \in Nat /\ Cardinality(Present \cup Owned) \in Nat
  BY <1>4, <1>5, <1>6, FS_CardinalityType DEF EnoughNumbers
<1>8. IsFiniteSet(Taken) /\ Cardinality(Taken) <= Cardinality(Present \cup Owned)
  BY <1>1, <1>5, FS_Subset
<1>9. f \in Injection(0 .. MaxCopy, Taken)
  <2>1. \A i, j \in 0 .. MaxCopy : f[i] = f[j] => i = j
    <3> SUFFICES ASSUME NEW i \in 0 .. MaxCopy, NEW j \in 0 .. MaxCopy, f[i] = f[j] PROVE i = j
      OBVIOUS
    <3>1. f[i].copy = i /\ f[j].copy = j
      OBVIOUS
    <3> QED BY <3>1
  <2>2. f \in [0 .. MaxCopy -> Taken]
    OBVIOUS
  <2> HIDE DEF f
  <2> QED BY <2>1, <2>2 DEF Injection, IsInjective
<1> HIDE DEF f
<1>10. Cardinality(0 .. MaxCopy) <= Cardinality(Taken)
  BY <1>8, <1>9, FS_Injection
<1>11. Cardinality(0 .. MaxCopy) = MaxCopy + 1
  BY MaxCopyAssumption, FS_Interval
<1>12. Cardinality(Taken) \in Nat
  BY <1>8, FS_CardinalityType
<1> QED
  BY <1>2, <1>4, <1>5, <1>7, <1>8, <1>10, <1>11, <1>12, MaxCopyAssumption DEF EnoughNumbers

\* Chromium's record after a report.
LEMMA ReportedRecord ==
  ASSUME NEW id \in Ids, NEW d \in DownloadRecords, Report(id, d)
  PROVE  \E e \in DownloadRecords : /\ download' = [download EXCEPT ![id] = e]
                                    /\ e.phase = d.phase /\ e.path = d.path
<1> DEFINE e == [d EXCEPT !.reported = TRUE]
<1>1. e \in DownloadRecords /\ e.phase = d.phase /\ e.path = d.path
  BY DEF DownloadRecords
<1>2. \/ download' = [download EXCEPT ![id] = e]
      \/ download' = [download EXCEPT ![id] = d]
  BY DEF Report
<1> HIDE DEF e
<1> QED BY <1>1, <1>2

\* The steps of one download: it goes on, ends without its file, or begins to write it.
LEMMA GoesOn ==
  ASSUME DiskSafe, NEW id \in Ids, NEW d \in DownloadRecords,
         download' = [download EXCEPT ![id] = d], d.path = download[id].path,
         \/ d.phase = download[id].phase
         \/ download[id].phase = "running" /\ d.phase = "complete"
         \/ download[id].phase = "none" /\ d.phase = "starting",
         UNCHANGED <<allowed, disk>>, calls' \in [Ids -> Seq(Controls)]
  PROVE  DiskSafe' /\ FilesKept
<1>1. /\ download' \in [Ids -> DownloadRecords] /\ download'[id] = d
      /\ \A j \in Ids \ {id} : download'[j] = download[j]
  BY DEF DiskSafe
<1>2. DiskSafe'
  BY <1>1 DEF DiskSafe
<1>3. FilesKept
  BY DEF FilesKept
<1> QED BY <1>2, <1>3

LEMMA EndsWithoutFile ==
  ASSUME DiskSafe, NEW id \in Ids, NEW d \in DownloadRecords,
         download' = [download EXCEPT ![id] = d], d.phase \in {"cancelled", "interrupted"},
         UNCHANGED allowed, disk' = WithoutFile(id), calls' \in [Ids -> Seq(Controls)]
  PROVE  DiskSafe' /\ FilesKept
<1>1. /\ download' \in [Ids -> DownloadRecords] /\ download'[id] = d
      /\ \A j \in Ids \ {id} : download'[j] = download[j]
  BY DEF DiskSafe
<1>2. /\ disk' \in [Paths -> {"free", "user"} \cup Ids]
      /\ \A p \in Paths : disk'[p] = IF disk[p] = id THEN "free" ELSE disk[p]
  BY DEF DiskSafe, WithoutFile
<1>3. \A p \in Paths : disk'[p] \in Ids => disk'[p] = disk[p] /\ disk'[p] # id
  BY <1>2, IdsAssumption
<1>4. DiskSafe'
  BY <1>1, <1>2, <1>3 DEF DiskSafe
<1>5. FilesKept
  BY <1>2 DEF FilesKept
<1> QED BY <1>4, <1>5

LEMMA WritesFile ==
  ASSUME DiskSafe, NEW id \in Ids, NEW d \in DownloadRecords,
         download' = [download EXCEPT ![id] = d], d.path = download[id].path,
         download[id].phase = "named", d.phase = "running",
         UNCHANGED allowed, disk' = [disk EXCEPT ![download[id].path] = id],
         calls' \in [Ids -> Seq(Controls)]
  PROVE  DiskSafe' /\ FilesKept
<1>1. /\ download' \in [Ids -> DownloadRecords] /\ download'[id] = d
      /\ \A j \in Ids \ {id} : download'[j] = download[j]
  BY DEF DiskSafe
<1>2. /\ disk' \in [Paths -> {"free", "user"} \cup Ids]
      /\ \A p \in Paths : disk'[p] = IF p = download[id].path THEN id ELSE disk[p]
  BY DEF DiskSafe
<1>3. \A p \in Paths : p = download[id].path => disk[p] = "free"
  BY DEF DiskSafe
<1>4. \A p \in Paths : disk[p] # id
  BY DEF DiskSafe
<1>5. \A j \in Ids : download'[j].phase # "named"
  BY <1>1 DEF DiskSafe
<1>6. \A p \in Paths : disk'[p] = "user" => p \in Present
  BY <1>2, IdsAssumption DEF DiskSafe
<1>7. \A p \in Paths : disk'[p] \in Ids =>
        download'[disk'[p]].path = p /\ download'[disk'[p]].phase \in {"running", "complete"}
  BY <1>1, <1>2, <1>4 DEF DiskSafe
<1>8. DiskSafe'
  BY <1>1, <1>2, <1>5, <1>6, <1>7 DEF DiskSafe
<1>9. FilesKept
  BY <1>2, <1>3, IdsAssumption DEF FilesKept
<1> QED BY <1>8, <1>9

LEMMA GetsFreeName ==
  ASSUME ~Simultaneous, EnoughNumbers, DiskSafe, NEW id \in Ids, OnBeforeDownload(id)
  PROVE  DiskSafe' /\ FilesKept
<1>1. PICK name \in Names, made \in BOOLEAN :
        \E chosen \in IF ResolvedPath(name, made) # NoPath THEN {ResolvedPath(name, made)}
                      ELSE Picks \ Taken :
          download' = [download EXCEPT ![id].phase = "named", ![id].path = chosen]
  BY DEF OnBeforeDownload
<1>2. /\ download[id].phase = "starting" /\ UNCHANGED <<allowed, calls, disk>>
      /\ \A j \in Ids : download[j].phase # "named"
  BY DEF OnBeforeDownload
<1>3. allowed \in Dirs /\ download \in [Ids -> DownloadRecords]
      /\ download[id] \in DownloadRecords
  BY DEF DiskSafe
<1>4. ResolvedPath(name, made) # NoPath =>
        ResolvedPath(name, made) \in Paths /\ ResolvedPath(name, made) \notin Taken
  <2>1. \E i \in 0 .. MaxCopy : [dir |-> allowed, name |-> name, copy |-> i] \notin Taken
    BY <1>2, <1>3, NumberIsLeft
  <2>2. ResolveCollision(Taken, allowed, name) \in Paths
        /\ ResolveCollision(Taken, allowed, name) \notin Taken
    BY <1>3, <2>1, CollisionResolved
  <2> QED BY <2>2 DEF ResolvedPath
<1>5. PICK chosen \in AnyPath :
        /\ chosen \notin Taken
        /\ download' = [download EXCEPT ![id].phase = "named", ![id].path = chosen]
  BY <1>1, <1>4 DEF AnyPath
<1> DEFINE d == [download[id] EXCEPT !.phase = "named", !.path = chosen]
<1>6. d \in DownloadRecords /\ d.phase = "named" /\ d.path = chosen
  BY <1>3 DEF DownloadRecords
<1>7. download' = [download EXCEPT ![id] = d]
  BY <1>5
<1> HIDE DEF d
<1>8. /\ download' \in [Ids -> DownloadRecords] /\ download'[id] = d
      /\ \A j \in Ids \ {id} : download'[j] = download[j]
  BY <1>3, <1>6, <1>7
<1>9. \A p \in Paths : disk[p] # id
  BY <1>2 DEF DiskSafe
<1>10. chosen \in Paths => disk[chosen] = "free"
  BY <1>5 DEF Taken
<1>11. \A p \in Paths : disk[p] \in Ids =>
         download'[disk[p]].path = p /\ download'[disk[p]].phase \in {"running", "complete"}
  BY <1>8, <1>9 DEF DiskSafe
<1>12. /\ \A i, j \in Ids : download'[i].phase = "named" /\ download'[j].phase = "named" => i = j
       /\ \A i \in Ids : download'[i].phase = "named" /\ download'[i].path \in Paths =>
            disk[download'[i].path] = "free"
  BY <1>2, <1>6, <1>8, <1>10
<1>13. DiskSafe'
  BY <1>2, <1>8, <1>11, <1>12 DEF DiskSafe
<1>14. FilesKept
  BY <1>2 DEF FilesKept
<1> QED BY <1>13, <1>14

\* No other step touches a file but the user's deletion, and none but these a record.
LEMMA DiskStep ==
  ASSUME ~Simultaneous, EnoughNumbers, DiskSafe, [DownloadsNext]_downloadVars
  PROVE  DiskSafe' /\ FilesKept
<1>0. \A id \in Ids : download[id] \in DownloadRecords
  BY DEF DiskSafe
<1>1. ASSUME NEW id \in Ids, Announce(id) PROVE DiskSafe' /\ FilesKept
  <2> DEFINE d == [download[id] EXCEPT !.phase = "starting"]
  <2>1. d \in DownloadRecords /\ d.phase = "starting" /\ d.path = download[id].path
    BY <1>0 DEF DownloadRecords, Over
  <2>2. /\ download' = [download EXCEPT ![id] = d] /\ download[id].phase = "none"
        /\ UNCHANGED <<allowed, disk>> /\ calls' \in [Ids -> Seq(Controls)]
    BY <1>1 DEF Announce, DiskSafe
  <2> HIDE DEF d
  <2> QED BY <2>1, <2>2, GoesOn
<1>2. ASSUME NEW id \in Ids, OnBeforeDownload(id) PROVE DiskSafe' /\ FilesKept
  BY <1>2, GetsFreeName
<1>3. ASSUME NEW id \in Ids, BeginWriting(id) PROVE DiskSafe' /\ FilesKept
  <2> DEFINE d == [download[id] EXCEPT !.phase = "running"]
  <2>1. d \in DownloadRecords /\ d.phase = "running" /\ d.path = download[id].path
    BY <1>0 DEF DownloadRecords, Over
  <2>2. /\ Report(id, d) /\ download[id].phase = "named" /\ UNCHANGED allowed
        /\ disk' = [disk EXCEPT ![download[id].path] = id]
        /\ calls' \in [Ids -> Seq(Controls)]
    BY <1>3 DEF BeginWriting, DiskSafe
  <2> HIDE DEF d
  <2>3. PICK e \in DownloadRecords : /\ download' = [download EXCEPT ![id] = e]
                                     /\ e.phase = d.phase /\ e.path = d.path
    BY <2>1, <2>2, ReportedRecord
  <2> QED BY <2>1, <2>2, <2>3, WritesFile
<1>4. ASSUME NEW id \in Ids, Progress(id) PROVE DiskSafe' /\ FilesKept
  <2>1. PICK got \in {download[id].got, Size} : Report(id, [download[id] EXCEPT !.got = got])
    BY <1>4 DEF Progress
  <2> DEFINE d == [download[id] EXCEPT !.got = got]
  <2>2. d \in DownloadRecords /\ d.phase = download[id].phase /\ d.path = download[id].path
    BY <1>0 DEF DownloadRecords, Over
  <2>3. UNCHANGED <<allowed, disk>> /\ calls' \in [Ids -> Seq(Controls)] /\ Report(id, d)
    BY <1>4, <2>1 DEF Progress, DiskSafe
  <2> HIDE DEF d
  <2>4. PICK e \in DownloadRecords : /\ download' = [download EXCEPT ![id] = e]
                                     /\ e.phase = d.phase /\ e.path = d.path
    BY <2>2, <2>3, ReportedRecord
  <2> QED BY <2>2, <2>3, <2>4, GoesOn
<1>5. ASSUME NEW id \in Ids, End(id) PROVE DiskSafe' /\ FilesKept
  <2>1. PICK p \in Over :
          /\ Report(id, [download[id] EXCEPT !.phase = p])
          /\ \/ p = "complete" /\ download[id].phase = "running" /\ disk' = disk
             \/ p \in {"cancelled", "interrupted"} /\ disk' = WithoutFile(id)
    BY <1>5 DEF End, Over
  <2> DEFINE d == [download[id] EXCEPT !.phase = p]
  <2>2. d \in DownloadRecords /\ d.phase = p /\ d.path = download[id].path
    BY <1>0 DEF DownloadRecords, Over
  <2>3. UNCHANGED allowed /\ calls' \in [Ids -> Seq(Controls)] /\ Report(id, d)
    BY <1>5, <2>1 DEF End, DiskSafe
  <2> HIDE DEF d
  <2>4. PICK e \in DownloadRecords : /\ download' = [download EXCEPT ![id] = e]
                                     /\ e.phase = d.phase /\ e.path = d.path
    BY <2>2, <2>3, ReportedRecord
  <2> QED BY <2>1, <2>2, <2>3, <2>4, GoesOn, EndsWithoutFile
<1>6. ASSUME NEW id \in Ids, Orphan(id) PROVE DiskSafe' /\ FilesKept
  <2> DEFINE d == [download[id] EXCEPT !.attached = FALSE]
  <2>1. d \in DownloadRecords /\ d.phase = download[id].phase /\ d.path = download[id].path
    BY <1>0 DEF DownloadRecords, Over
  <2>2. /\ download' = [download EXCEPT ![id] = d]
        /\ UNCHANGED <<allowed, disk>> /\ calls' \in [Ids -> Seq(Controls)]
    BY <1>6 DEF Orphan, DiskSafe
  <2> HIDE DEF d
  <2> QED BY <2>1, <2>2, GoesOn
<1>7. ASSUME NEW id \in Ids, RunCall(id) PROVE DiskSafe' /\ FilesKept
  <2> DEFINE d == download[id]
             call == Head(calls[id])
             e == CASE call = "pause"  -> [d EXCEPT !.paused = TRUE]
                    [] call = "resume" -> [d EXCEPT !.paused = FALSE]
                    [] call = "cancel" -> [d EXCEPT !.phase = "cancelled"]
  <2>1. /\ calls[id] \in Seq(Controls) /\ calls[id] # <<>> /\ d \in DownloadRecords
        /\ allowed' = allowed /\ calls' = [calls EXCEPT ![id] = Tail(calls[id])]
    BY <1>7 DEF RunCall, DiskSafe
  <2>2. call \in Controls /\ Tail(calls[id]) \in Seq(Controls)
    BY <2>1, HeadTailProperties
  <2>3. calls' \in [Ids -> Seq(Controls)]
    BY <2>1, <2>2 DEF DiskSafe
  <2>4. CASE d.phase \in Over
    <3>1. download' = [download EXCEPT ![id] = d] /\ disk' = disk
      BY <1>7, <2>4 DEF RunCall, DiskSafe
    <3> HIDE DEF d
    <3> QED BY <2>1, <2>3, <3>1, GoesOn DEF d
  <2>5. CASE d.phase \notin Over
    <3>1. Report(id, e) /\ disk' = IF call = "cancel" THEN WithoutFile(id) ELSE disk
      BY <1>7, <2>5 DEF RunCall
    <3> HIDE DEF call
    <3>2. /\ e \in DownloadRecords /\ e.path = d.path
          /\ call = "cancel" => e.phase = "cancelled"
          /\ call # "cancel" => e.phase = d.phase
      <4>1. CASE call = "pause"
        BY <2>1, <4>1 DEF DownloadRecords
      <4>2. CASE call = "resume"
        BY <2>1, <4>2 DEF DownloadRecords
      <4>3. CASE call = "cancel"
        BY <2>1, <4>3 DEF DownloadRecords, Over
      <4> QED BY <2>2, <4>1, <4>2, <4>3 DEF Controls
    <3> HIDE DEF e, d
    <3>3. PICK r \in DownloadRecords : /\ download' = [download EXCEPT ![id] = r]
                                       /\ r.phase = e.phase /\ r.path = e.path
      BY <3>1, <3>2, ReportedRecord
    <3>4. CASE call = "cancel"
      BY <2>1, <2>3, <3>1, <3>2, <3>3, <3>4, EndsWithoutFile
    <3>5. CASE call # "cancel"
      BY <2>1, <2>3, <3>1, <3>2, <3>3, <3>5, GoesOn DEF d
    <3> QED BY <3>4, <3>5
  <2> QED BY <2>4, <2>5
<1>8. CASE HandleAction
  <2> DEFINE action == Head(posted).action
             id == Head(posted).id
             q == IF action \in {"pause", "resume", "cancel"}
                  THEN calls[id] \o ControlCall(transfers, id, action) ELSE calls[id]
  <2>1. calls' = [calls EXCEPT ![id] = q] /\ UNCHANGED <<allowed, download, disk>>
    BY <1>8 DEF HandleAction
  <2>2. id \in Ids => q \in Seq(Controls)
    <3>1. action \in {"pause", "resume", "cancel"} =>
            ControlCall(transfers, id, action) \in Seq(Controls)
      <4> SUFFICES ASSUME action \in {"pause", "resume", "cancel"}
                   PROVE  ControlCall(transfers, id, action) \in Seq(Controls)
        OBVIOUS
      <4>1. ControlCall(transfers, id, action) \in {<<action>>, <<>>}
        BY DEF ControlCall
      <4> HIDE DEF action
      <4>2. <<action>> \in Seq(Controls) /\ <<>> \in Seq(Controls)
        BY DEF Controls
      <4> QED BY <4>1, <4>2
    <3> QED BY <3>1, ConcatProperties DEF DiskSafe
  <2> HIDE DEF id, q
  <2>3. calls' \in [Ids -> Seq(Controls)]
    BY <2>1, <2>2 DEF DiskSafe
  <2>4. DiskSafe'
    BY <2>1, <2>3 DEF DiskSafe
  <2>5. FilesKept
    BY <2>1 DEF FilesKept
  <2> QED BY <2>4, <2>5
<1>9. CASE UserDeletesFile
  <2>1. PICK p \in Paths : disk' = [disk EXCEPT ![p] = "free"]
    BY <1>9 DEF UserDeletesFile
  <2>2. UNCHANGED <<allowed, download, calls>>
    BY <1>9 DEF UserDeletesFile
  <2>3. /\ disk' \in [Paths -> {"free", "user"} \cup Ids]
        /\ \A r \in Paths : disk'[r] \in {disk[r], "free"}
    BY <2>1 DEF DiskSafe
  <2>4. DiskSafe'
    BY <2>2, <2>3, IdsAssumption DEF DiskSafe
  <2>5. FilesKept
    BY <2>3 DEF FilesKept
  <2> QED BY <2>4, <2>5
<1>10. CASE Toggle \/ PressRow \/ ApplySettings \/ WindowDestroyed \/ ShutdownRuntime \/ UNCHANGED downloadVars
  <2>1. UNCHANGED <<download, calls, disk>> /\ allowed' \in Dirs
    BY <1>10 DEF Toggle, PressRow, ApplySettings, WindowDestroyed, ShutdownRuntime, downloadVars, DiskSafe
  <2>2. DiskSafe'
    BY <2>1 DEF DiskSafe
  <2>3. FilesKept
    BY <2>1 DEF FilesKept
  <2> QED BY <2>2, <2>3
<1> QED BY <1>1, <1>2, <1>3, <1>4, <1>5, <1>6, <1>7, <1>8, <1>9, <1>10 DEF DownloadsNext, User

\* FinishedFilesAreKept: as long as names are taken one after the other and there are
\* numbers enough, no download writes over a file of the user or of another download,
\* wherever settings and dialogs send it.
THEOREM FilesAreNotOverwritten ==
  ASSUME ~Simultaneous, EnoughNumbers
  PROVE  DownloadsSpec => FinishedFilesAreKept
<1> DEFINE Body ==
      \A p \in Paths :
       (disk[p] = "user" \/ (disk[p] \in Ids /\ download[disk[p]].phase = "complete"))
         => disk'[p] \in {disk[p], "free"}
<1>1. DownloadsInit => DiskSafe
  <2> SUFFICES ASSUME DownloadsInit PROVE DiskSafe
    OBVIOUS
  <2>1. Idle \in DownloadRecords /\ Idle.phase = "none"
    BY DEF Idle, DownloadRecords, AnyPath, Over
  <2>2. /\ allowed \in Dirs /\ download = [id \in Ids |-> Idle] /\ calls = [id \in Ids |-> <<>>]
        /\ disk = [p \in Paths |-> IF p \in Present THEN "user" ELSE "free"]
    BY DEF DownloadsInit
  <2> QED BY <2>1, <2>2, EmptySeq, IdsAssumption DEF DiskSafe
<1>2. DiskSafe /\ [DownloadsNext]_downloadVars => DiskSafe'
  BY DiskStep
<1>3. DiskSafe /\ [DownloadsNext]_downloadVars => [Body]_downloadVars
  BY DiskStep DEF FilesKept
<1>4. DownloadsSpec => [][Body]_downloadVars
  BY <1>1, <1>2, <1>3, PTL DEF DownloadsSpec
<1> QED BY <1>4 DEF FinishedFilesAreKept

-----------------------------------------------------------------------------
\* Permissions.

\* What the variables are; the tables of the policy are not looked into.
PermissionsTypeOK ==
  /\ tabs \in [open : SUBSET Tabs, closing : SUBSET Tabs, active : Tabs \cup {NoTab}]
  /\ site \in [Tabs -> Origins]
  /\ private \in BOOLEAN
  /\ DOMAIN pending \subseteq Prompts
  /\ address \in [editing : BOOLEAN, origin : Origins \cup {NoName}]
  /\ file = [rules |-> file.rules, stale |-> file.stale]
  /\ answers \in [Prompts -> {0 - 1, 0, 1}]

\* Private tabs are open in private mode only.
ModeOwnsTabs == ~private => tabs.open \cap Ephemeral = {}

PermissionsSafe ==
  PermissionsTypeOK /\ ModeOwnsTabs /\ PromptsAreSound /\ OriginIsCurrent /\ RulesSurviveRestart

-----------------------------------------------------------------------------
\* The banner.


LEMMA PickIsOne ==
  ASSUME NEW ids \in SUBSET Prompts, ids # {}
  PROVE  Pick(ids) \in ids
<1>1. ids \in SUBSET Nat
  BY PromptsAssumption
<1>2. \E p \in ids : \A q \in ids : p <= q
  BY <1>1, LeastElement
<1> QED BY <1>2 DEF Pick

\* What FindPromptForTab finds is a prompt of the tab.
LEMMA FindIsOfTab ==
  ASSUME NEW prompts, DOMAIN prompts \subseteq Prompts, NEW t,
         FindPromptForTab(prompts, t) # NoPrompt
  PROVE  /\ FindPromptForTab(prompts, t) \in DOMAIN prompts
         /\ prompts[FindPromptForTab(prompts, t)].tab = t
<1> DEFINE of == {p \in DOMAIN prompts : prompts[p].tab = t}
<1>1. of # {} /\ FindPromptForTab(prompts, t) = Pick(of)
  BY DEF FindPromptForTab
<1>2. Pick(of) \in of
  BY <1>1, PickIsOne
<1> QED BY <1>1, <1>2

\* The field shows the origin of the active tab as soon as it is not edited.
LEMMA SyncedShowsOrigin ==
  ASSUME NEW field \in [editing : BOOLEAN, origin : Origins \cup {NoName}],
         NEW sites \in [Tabs -> Origins], NEW active \in Tabs \cup {NoTab}
  PROVE  /\ Synced(field, active, sites) \in [editing : BOOLEAN, origin : Origins \cup {NoName}]
         /\ Synced(field, active, sites).editing = field.editing
         /\ active # NoTab /\ ~field.editing
              => Synced(field, active, sites).origin = sites[active]
BY TabsAssumption DEF Synced

\* A change of the session drops the prompts of the tabs that closed and shows one of
\* the tab that came up.
LEMMA BecomesKeepsPrompts ==
  ASSUME PermissionsSafe, NEW open \in SUBSET Tabs, NEW closed \in SUBSET Tabs,
         NEW active \in Tabs \cup {NoTab},
         tabs.open \ closed \subseteq open,
         active = NoTab => tabs.active \in closed \cup {NoTab},
         SessionBecomes(open, closed, active),
         UNCHANGED <<site, file, answers>>, policy' = policy, private' \in BOOLEAN,
         private' \/ open \cap Ephemeral = {}
  PROVE  PermissionsSafe'
<1> USE DEF PermissionsSafe
<1> DEFINE left == Without(pending, PromptsOf(closed))
<1>1. /\ DOMAIN left \subseteq DOMAIN pending
      /\ \A p \in DOMAIN left : left[p] = pending[p] /\ left[p].tab \in open
  BY DEF Without, PromptsOf, PromptsAreSound, BannerIsPending
<1>2. /\ tabs' = [open |-> open, closing |-> (tabs.closing \ open) \cup closed, active |-> active]
      /\ pending' = left
      /\ banner' = BannerAfterChange(active, left, BannerWithout(banner, PromptsOf(closed)))
      /\ address' = Synced(address, active, site)
  BY DEF SessionBecomes
<1> HIDE DEF left
<1>3. banner' # NoPrompt => banner' \in DOMAIN left /\ left[banner'].tab = active
  <2>1. CASE active = NoTab
    <3>1. SUFFICES ASSUME banner' # NoPrompt PROVE FALSE
      OBVIOUS
    <3>2. banner' = banner /\ banner \notin PromptsOf(closed) /\ banner # NoPrompt
      BY <1>2, <2>1, <3>1 DEF BannerAfterChange, BannerWithout
    <3>3. banner \in DOMAIN pending /\ pending[banner].tab = tabs.active /\ tabs.active \in tabs.open
      BY <3>2 DEF PromptsAreSound, BannerIsPending
    <3>4. tabs.active \in closed
      BY <2>1, <3>3, TabsAssumption DEF PermissionsTypeOK
    <3> QED BY <3>2, <3>3, <3>4 DEF PromptsOf
  <2>2. CASE active # NoTab
    <3>1. banner' = FindPromptForTab(left, active)
      BY <1>2, <2>2 DEF BannerAfterChange
    <3>2. DOMAIN left \subseteq Prompts
      BY <1>1 DEF PermissionsTypeOK
    <3> QED BY <3>1, <3>2, FindIsOfTab
  <2> QED BY <2>1, <2>2
<1>4. PromptsAreSound'
  BY <1>1, <1>2, <1>3 DEF PromptsAreSound, BannerIsPending, AnsweredOnce
<1>5. /\ address' \in [editing : BOOLEAN, origin : Origins \cup {NoName}]
      /\ OriginIsCurrent'
  <2>1. /\ address \in [editing : BOOLEAN, origin : Origins \cup {NoName}]
        /\ site \in [Tabs -> Origins]
    BY DEF PermissionsTypeOK
  <2>2. /\ address' \in [editing : BOOLEAN, origin : Origins \cup {NoName}]
        /\ address'.editing = address.editing
        /\ active # NoTab /\ ~address.editing => address'.origin = site[active]
    BY <1>2, <2>1, SyncedShowsOrigin
  <2>3. tabs'.active = active /\ site' = site
    BY <1>2
  <2> QED BY <2>2, <2>3 DEF OriginIsCurrent
<1>6. PermissionsTypeOK'
  BY <1>1, <1>2, <1>5 DEF PermissionsTypeOK
<1>7. ModeOwnsTabs' /\ RulesSurviveRestart'
  BY <1>2 DEF ModeOwnsTabs, RulesSurviveRestart
<1> QED BY <1>4, <1>5, <1>6, <1>7

-----------------------------------------------------------------------------
\* Every action keeps PermissionsSafe.

LEMMA RequestKeepsSafe ==
  ASSUME PermissionsSafe, ~LateRequests, NEW p \in Prompts, NEW t, NEW origin, NEW caps,
         Request(p, t, origin, caps)
  PROVE  PermissionsSafe'
<1> USE DEF PermissionsSafe
<1>1. /\ t \in tabs.open /\ answers[p] = 0 - 1
      /\ UNCHANGED <<tabs, site, private, address, policy, file>>
  BY DEF Request
<1>2. p \notin DOMAIN pending
  BY <1>1 DEF PromptsAreSound, AnsweredOnce
<1>3. CASE Outcome(policy, origin, caps) = "Ask"
  <2>1. /\ Register(p, t, origin, caps)
        /\ answers' = [answers EXCEPT ![p] = 0]
    BY <1>3 DEF Request
  <2>2. /\ DOMAIN pending' = DOMAIN pending \cup {p}
        /\ pending'[p].tab = t
        /\ \A q \in DOMAIN pending : pending'[q] = pending[q]
        /\ banner' = IF tabs.active = t THEN p ELSE banner
    BY <1>2, <2>1 DEF Register
  <2>3. answers' \in [Prompts -> {0 - 1, 0, 1}] /\ answers'[p] = 0
        /\ \A q \in Prompts \ {p} : answers'[q] = answers[q]
    BY <2>1 DEF PermissionsTypeOK
  <2>4. PermissionsTypeOK'
    BY <1>1, <2>2, <2>3 DEF PermissionsTypeOK
  <2>5. BannerIsPending'
    BY <1>1, <2>2, <2>3 DEF PromptsAreSound, BannerIsPending
  <2>6. AnsweredOnce'
    BY <1>1, <2>2, <2>3 DEF PromptsAreSound, AnsweredOnce, PermissionsTypeOK
  <2> QED
    BY <1>1, <2>4, <2>5, <2>6 DEF PromptsAreSound, ModeOwnsTabs, OriginIsCurrent, RulesSurviveRestart
<1>4. CASE Outcome(policy, origin, caps) # "Ask"
  <2>1. UNCHANGED <<pending, banner>> /\ answers' = [answers EXCEPT ![p] = 1]
    BY <1>4 DEF Request
  <2>2. answers' \in [Prompts -> {0 - 1, 0, 1}] /\ \A q \in Prompts \ {p} : answers'[q] = answers[q]
    BY <2>1 DEF PermissionsTypeOK
  <2>3. PermissionsTypeOK'
    BY <1>1, <2>1, <2>2 DEF PermissionsTypeOK
  <2>4. PromptsAreSound'
    BY <1>1, <1>2, <2>1, <2>2, <2>3
       DEF PromptsAreSound, BannerIsPending, AnsweredOnce, PermissionsTypeOK
  <2> QED BY <1>1, <2>3, <2>4 DEF ModeOwnsTabs, OriginIsCurrent, RulesSurviveRestart
<1> QED BY <1>3, <1>4

\* Prompts that are taken away leave those that stay as they were.
LEMMA WithoutKeepsSafe ==
  ASSUME PermissionsSafe, NEW ids,
         pending' = Without(pending, ids), banner' = BannerWithout(banner, ids),
         UNCHANGED <<tabs, site, private, address>>,
         answers' \in [Prompts -> {0 - 1, 0, 1}],
         \A p \in Prompts \ ids : answers'[p] = answers[p],
         file' = [rules |-> file'.rules, stale |-> file'.stale],
         RulesSurviveRestart'
  PROVE  PermissionsSafe'
<1> USE DEF PermissionsSafe
<1>1. /\ DOMAIN pending' \subseteq DOMAIN pending \ ids
      /\ \A p \in DOMAIN pending \ ids : p \in DOMAIN pending' /\ pending'[p] = pending[p]
      /\ banner' # NoPrompt => banner' = banner /\ banner \notin ids
  BY DEF Without, BannerWithout
<1>2. PermissionsTypeOK'
  BY <1>1 DEF PermissionsTypeOK
<1>3. BannerIsPending'
  BY <1>1 DEF PromptsAreSound, BannerIsPending
<1>4. AnsweredOnce'
  BY <1>1, <1>2 DEF PromptsAreSound, AnsweredOnce, PermissionsTypeOK
<1> QED BY <1>2, <1>3, <1>4 DEF PromptsAreSound, ModeOwnsTabs, OriginIsCurrent

LEMMA ArriveKeepsSafe ==
  ASSUME PermissionsSafe, NEW t \in Tabs,
         NEW field \in [editing : BOOLEAN, origin : Origins \cup {NoName}],
         Arrive(t, field)
  PROVE  PermissionsSafe'
<1>1. /\ site' \in [Tabs -> Origins]
      /\ address' = Synced(field, tabs.active, site')
      /\ banner' = BannerAfterChange(tabs.active, pending, banner)
      /\ UNCHANGED <<tabs, private, pending, policy, file, answers>>
  BY DEF Arrive, PermissionsSafe, PermissionsTypeOK
<1>2. /\ address' \in [editing : BOOLEAN, origin : Origins \cup {NoName}]
      /\ OriginIsCurrent'
  <2>1. tabs.active \in Tabs \cup {NoTab}
    BY DEF PermissionsSafe, PermissionsTypeOK
  <2>2. /\ address' \in [editing : BOOLEAN, origin : Origins \cup {NoName}]
        /\ address'.editing = field.editing
        /\ tabs.active # NoTab /\ ~field.editing => address'.origin = site'[tabs.active]
    BY <1>1, <2>1, SyncedShowsOrigin
  <2>3. OriginIsCurrent'
    BY <1>1, <2>2 DEF OriginIsCurrent
  <2> QED BY <2>2, <2>3
<1>3. banner' # NoPrompt => banner' \in DOMAIN pending /\ pending[banner'].tab = tabs.active
  BY <1>1, FindIsOfTab
     DEF BannerAfterChange, PermissionsSafe, PermissionsTypeOK, PromptsAreSound, BannerIsPending
<1>4. PermissionsTypeOK'
  BY <1>1, <1>2 DEF PermissionsSafe, PermissionsTypeOK
<1>5. PromptsAreSound'
  BY <1>1, <1>3 DEF PermissionsSafe, PromptsAreSound, BannerIsPending, AnsweredOnce
<1> QED BY <1>1, <1>2, <1>4, <1>5 DEF PermissionsSafe, ModeOwnsTabs, RulesSurviveRestart

\* The answers to a prompt: it goes, its callback is called for the first time, and the
\* rules reach the file or the file is known to be old.
LEMMA RespondKeepsSafe ==
  ASSUME PermissionsSafe, NEW p, NEW decision, NEW remember,
         RespondToPermission(p, decision, remember)
  PROVE  PermissionsSafe'
<1>1. /\ p \in DOMAIN pending
      /\ answers' = [answers EXCEPT ![p] = @ + 1]
      /\ pending' = Without(pending, {p}) /\ banner' = BannerWithout(banner, {p})
      /\ UNCHANGED <<tabs, site, private, address>>
      /\ Saved(policy'.origin) \/ UNCHANGED <<policy, file>>
  BY DEF RespondToPermission
<1>2. answers[p] = 0 /\ p \in Prompts /\ answers \in [Prompts -> {0 - 1, 0, 1}]
  BY <1>1 DEF PermissionsSafe, PromptsAreSound, AnsweredOnce, PermissionsTypeOK
<1>3. answers' \in [Prompts -> {0 - 1, 0, 1}] /\ \A q \in Prompts \ {p} : answers'[q] = answers[q]
  BY <1>1, <1>2
<1>4. /\ file' = [rules |-> file'.rules, stale |-> file'.stale]
      /\ RulesSurviveRestart'
  <2>1. CASE Saved(policy'.origin)
    BY <2>1 DEF Saved, RulesSurviveRestart
  <2>2. CASE UNCHANGED <<policy, file>>
    BY <2>2 DEF PermissionsSafe, PermissionsTypeOK, RulesSurviveRestart
  <2> QED BY <1>1, <2>1, <2>2
<1> QED BY <1>1, <1>3, <1>4, WithoutKeepsSafe

LEMMA ResetKeepsSafe ==
  ASSUME PermissionsSafe, ResetOriginPermissions PROVE PermissionsSafe'
BY DEF ResetOriginPermissions, Saved, PermissionsSafe, PermissionsTypeOK, RulesSurviveRestart,
       PromptsAreSound, BannerIsPending, AnsweredOnce, OriginIsCurrent, ModeOwnsTabs

LEMMA EditKeepsSafe ==
  ASSUME PermissionsSafe, Edit PROVE PermissionsSafe'
<1> DEFINE Fields == [editing : BOOLEAN, origin : Origins \cup {NoName}]
<1>1. CASE tabs.active # NoTab /\ Arrive(tabs.active, NotEditing)
  <2>1. NotEditing \in Fields /\ tabs.active \in Tabs
    BY <1>1 DEF NotEditing, PermissionsSafe, PermissionsTypeOK
  <2> QED BY <1>1, <2>1, ArriveKeepsSafe
<1>2. ASSUME UNCHANGED <<tabs, site, private, pending, banner, policy, file, answers>>,
             address' \in Fields, OriginIsCurrent'
      PROVE  PermissionsSafe'
  BY <1>2 DEF PermissionsSafe, PermissionsTypeOK, RulesSurviveRestart, PromptsAreSound,
              BannerIsPending, AnsweredOnce, ModeOwnsTabs
<1>3. CASE HandleAddressUserAction
  <2>1. address' \in Fields /\ address'.editing
    BY <1>3 DEF HandleAddressUserAction, PermissionsSafe, PermissionsTypeOK
  <2> QED BY <1>2, <1>3, <2>1 DEF HandleAddressUserAction, OriginIsCurrent
<1>4. CASE GiveUpEditing
  <2>1. NotEditing \in Fields
    BY DEF NotEditing, PermissionsSafe, PermissionsTypeOK
  <2>2. address' \in Fields /\ OriginIsCurrent'
    BY <1>4, <2>1, SyncedShowsOrigin
       DEF GiveUpEditing, PermissionsSafe, PermissionsTypeOK, OriginIsCurrent, NotEditing
  <2> QED BY <1>2, <1>4, <2>2 DEF GiveUpEditing
<1>5. CASE EnterAddress /\ tabs.active = NoTab
  <2>1. address' \in Fields /\ OriginIsCurrent'
    BY <1>5 DEF EnterAddress, NotEditing, PermissionsSafe, PermissionsTypeOK, OriginIsCurrent
  <2> QED BY <1>2, <1>5, <2>1 DEF EnterAddress
<1> QED BY <1>1, <1>3, <1>4, <1>5 DEF Edit, EnterAddress

\* Tabs come, go and change places in either mode.
LEMMA ShellKeepsSafe ==
  ASSUME PermissionsSafe,
         \/ \E t \in Tabs : OpenTab(t) \/ ActivateTab(t) \/ CloseTab(t)
         \/ EnterPrivateMode \/ ExitPrivateMode
  PROVE  PermissionsSafe'
<1>1. /\ tabs \in [open : SUBSET Tabs, closing : SUBSET Tabs, active : Tabs \cup {NoTab}]
      /\ private \in BOOLEAN /\ (private \/ tabs.open \cap Ephemeral = {})
  BY DEF PermissionsSafe, PermissionsTypeOK, ModeOwnsTabs
<1>2. ASSUME NEW t \in Tabs, IsVisible(t)
      PROVE  private \/ t \notin Ephemeral
  BY <1>2, TabsAssumption DEF IsVisible
<1>3. ASSUME NEW t \in Tabs, OpenTab(t) PROVE PermissionsSafe'
  <2>1. /\ SessionBecomes(tabs.open \cup {t}, {}, t) /\ IsVisible(t)
        /\ UNCHANGED <<site, private, policy, file, answers>>
    BY <1>3 DEF OpenTab
  <2> QED BY <1>1, <1>2, <2>1, TabsAssumption, BecomesKeepsPrompts
<1>4. ASSUME NEW t \in Tabs, ActivateTab(t) PROVE PermissionsSafe'
  <2>1. /\ SessionBecomes(tabs.open, {}, t)
        /\ UNCHANGED <<site, private, policy, file, answers>>
    BY <1>4 DEF ActivateTab
  <2> QED BY <1>1, <2>1, TabsAssumption, BecomesKeepsPrompts
<1>5. ASSUME NEW t \in Tabs, CloseTab(t) PROVE PermissionsSafe'
  <2>1. PICK next \in Tabs \cup {NoTab} :
          /\ SessionBecomes(tabs.open \ {t}, {t}, next)
          /\ next = NoTab => tabs.active \in {t, NoTab}
    BY <1>1, <1>5, TabsAssumption DEF CloseTab
  <2>2. UNCHANGED <<site, private, policy, file, answers>>
    BY <1>5 DEF CloseTab
  <2> QED BY <1>1, <2>1, <2>2, BecomesKeepsPrompts
<1>6. CASE EnterPrivateMode
  <2>1. PICK t \in Ephemeral : SessionBecomes(tabs.open \cup {t}, {}, t)
    BY <1>6 DEF EnterPrivateMode
  <2>2. private' = TRUE /\ UNCHANGED <<site, policy, file, answers>>
    BY <1>6 DEF EnterPrivateMode
  <2> QED BY <1>1, <2>1, <2>2, TabsAssumption, BecomesKeepsPrompts DEF Tabs
<1>7. CASE ExitPrivateMode
  <2>1. PICK t \in Persistent :
          SessionBecomes((tabs.open \ Ephemeral) \cup {t}, tabs.open \cap Ephemeral, t)
    BY <1>7 DEF ExitPrivateMode
  <2>2. private' = FALSE /\ UNCHANGED <<site, policy, file, answers>>
    BY <1>7 DEF ExitPrivateMode
  <2>3. t \in Tabs /\ ((tabs.open \ Ephemeral) \cup {t}) \cap Ephemeral = {}
    BY TabsAssumption DEF Tabs
  <2> QED BY <1>1, <2>1, <2>2, <2>3, TabsAssumption, BecomesKeepsPrompts
<1> QED BY <1>3, <1>4, <1>5, <1>6, <1>7

LEMMA RestartKeepsSafe ==
  ASSUME PermissionsSafe, Restart PROVE PermissionsSafe'
<1>1. PICK t \in Persistent : tabs' = [open |-> {t}, closing |-> {}, active |-> t]
  BY DEF Restart
<1>2. /\ private' = FALSE /\ pending' = <<>> /\ banner' = NoPrompt
      /\ address' = [editing |-> FALSE, origin |-> site[tabs'.active]]
      /\ policy' = [DefaultPolicy EXCEPT !.origin = file.rules]
      /\ file' = [file EXCEPT !.stale = FALSE]
      /\ UNCHANGED <<site, answers>>
  BY DEF Restart
<1>3. DOMAIN pending' = {}
  BY <1>2
<1>4. PermissionsTypeOK'
  BY <1>1, <1>2, <1>3 DEF PermissionsSafe, PermissionsTypeOK, Tabs
<1>5. PromptsAreSound'
  BY <1>2, <1>3, <1>4 DEF PromptsAreSound, BannerIsPending, AnsweredOnce, PermissionsTypeOK
<1>6. ModeOwnsTabs' /\ OriginIsCurrent'
  BY <1>1, <1>2, TabsAssumption DEF ModeOwnsTabs, OriginIsCurrent
<1>7. RulesSurviveRestart'
  BY <1>2 DEF RulesSurviveRestart, DefaultPolicy, PermissionsSafe, PermissionsTypeOK
<1> QED BY <1>4, <1>5, <1>6, <1>7 DEF PermissionsSafe

LEMMA InitIsSafe == Init => PermissionsSafe
<1> SUFFICES ASSUME Init PROVE PermissionsSafe
  OBVIOUS
<1>1. DOMAIN pending = {}
  BY DEF Init
<1>2. PermissionsTypeOK
  <2>1. PICK t \in Persistent : tabs = [open |-> {t}, closing |-> {}, active |-> t]
    BY DEF Init
  <2>2. site \in [Tabs -> Origins] /\ t \in Tabs
    BY DEF Init, Tabs
  <2>3. address = [editing |-> FALSE, origin |-> site[t]] /\ site[t] \in Origins
    BY <2>1, <2>2 DEF Init
  <2>4. file = [rules |-> file.rules, stale |-> file.stale]
    BY DEF Init
  <2>5. answers \in [Prompts -> {0 - 1, 0, 1}] /\ private = FALSE
    BY DEF Init
  <2> QED BY <1>1, <2>1, <2>2, <2>3, <2>4, <2>5 DEF PermissionsTypeOK
<1> QED
  BY <1>1, <1>2, TabsAssumption
     DEF Init, PermissionsSafe, PromptsAreSound, BannerIsPending, AnsweredOnce, ModeOwnsTabs,
         OriginIsCurrent, RulesSurviveRestart, DefaultPolicy

LEMMA StepKeepsSafe ==
  ASSUME ~LateRequests, PermissionsSafe, [Next]_vars PROVE PermissionsSafe'
<1>1. ASSUME NEW p \in Prompts, NEW t \in Tabs, NEW o \in Origins,
             NEW caps \in SUBSET Capabilities \ {{}}, Request(p, t, Spelled[o], caps)
      PROVE  PermissionsSafe'
  BY <1>1, RequestKeepsSafe
<1>2. ASSUME NEW p \in Prompts, OnDismissPermissionPrompt(p) PROVE PermissionsSafe'
  <2>1. /\ pending' = Without(pending, {p}) /\ banner' = BannerWithout(banner, {p})
        /\ UNCHANGED <<tabs, site, private, address, policy, file, answers>>
    BY <1>2 DEF OnDismissPermissionPrompt
  <2>2. /\ answers' \in [Prompts -> {0 - 1, 0, 1}] /\ RulesSurviveRestart'
        /\ file' = [rules |-> file'.rules, stale |-> file'.stale]
    BY <2>1 DEF PermissionsSafe, PermissionsTypeOK, RulesSurviveRestart
  <2> QED BY <2>1, <2>2, WithoutKeepsSafe
<1>3. ASSUME NEW t \in Tabs, Commit(t) PROVE PermissionsSafe'
  <2>1. address \in [editing : BOOLEAN, origin : Origins \cup {NoName}]
    BY DEF PermissionsSafe, PermissionsTypeOK
  <2> QED BY <1>3, <2>1, ArriveKeepsSafe DEF Commit
<1>4. ASSUME NEW t \in Tabs, BrowserGone(t) PROVE PermissionsSafe'
  BY <1>4 DEF BrowserGone, PermissionsSafe, PermissionsTypeOK, ModeOwnsTabs, PromptsAreSound,
              BannerIsPending, AnsweredOnce, OriginIsCurrent, RulesSurviveRestart
<1>5. CASE Press
  BY <1>5, RespondKeepsSafe, ResetKeepsSafe
     DEF Press, AllowPermissionOnce, AlwaysAllowPermission, BlockPermission
<1>6. CASE UNCHANGED vars
  BY <1>6 DEF vars, PermissionsSafe, PermissionsTypeOK, ModeOwnsTabs, PromptsAreSound,
              BannerIsPending, AnsweredOnce, OriginIsCurrent, RulesSurviveRestart
<1> QED
  BY <1>1, <1>2, <1>3, <1>4, <1>5, <1>6, ShellKeepsSafe, EditKeepsSafe, RestartKeepsSafe DEF Next

-----------------------------------------------------------------------------
\* The inductive invariant holds as long as closing browsers ask for nothing.
LEMMA SafeAlways == ASSUME ~LateRequests PROVE Spec => []PermissionsSafe
<1>1. PermissionsSafe /\ [Next]_vars => PermissionsSafe'
  BY StepKeepsSafe
<1> QED BY <1>1, InitIsSafe, PTL DEF Spec

\* What the banner shows is pending and of the active tab, a prompt goes with its tab, and
\* no callback of a request is called twice (RespondToPermission, DismissPermissionPrompt).
THEOREM PromptsStaySound == ASSUME ~LateRequests PROVE Spec => []PromptsAreSound
<1>1. PermissionsSafe => PromptsAreSound
  BY DEF PermissionsSafe
<1> QED BY <1>1, SafeAlways, PTL

\* The chrome resets the rules of the origin of the active tab (SyncAddressFromSession).
THEOREM OriginStaysCurrent == ASSUME ~LateRequests PROVE Spec => []OriginIsCurrent
<1>1. PermissionsSafe => OriginIsCurrent
  BY DEF PermissionsSafe
<1> QED BY <1>1, SafeAlways, PTL

\* The file holds the rules in force unless its last write failed (TriggerAutoSave).
THEOREM RulesStaySaved == ASSUME ~LateRequests PROVE Spec => []RulesSurviveRestart
<1>1. PermissionsSafe => RulesSurviveRestart
  BY DEF PermissionsSafe
<1> QED BY <1>1, SafeAlways, PTL

\* No step of private mode, and no answer to a private tab, leaves a rule behind.
LEMMA StepRemembersNothingPrivate ==
  ASSUME PermissionsSafe, [Next]_vars,
         private \/ (banner # NoPrompt /\ pending[banner].tab \in Ephemeral)
  PROVE  file'.rules = file.rules /\ policy'.origin \in {policy.origin, file.rules}
<1>1. private
  BY DEF PermissionsSafe, ModeOwnsTabs, PromptsAreSound, BannerIsPending
<1>2. CASE UNCHANGED <<policy, file>>
  BY <1>2
<1>3. CASE Press
  BY <1>1, <1>3 DEF Press, AllowPermissionOnce, AlwaysAllowPermission, BlockPermission,
                    ResetOriginPermissions, RespondToPermission
<1>4. CASE Restart
  <2>1. policy' = [DefaultPolicy EXCEPT !.origin = file.rules] /\ file' = [file EXCEPT !.stale = FALSE]
    BY <1>4 DEF Restart
  <2> QED BY <2>1 DEF DefaultPolicy, PermissionsSafe, PermissionsTypeOK
<1>5. [Next]_vars => Press \/ Restart \/ UNCHANGED <<policy, file>>
  BY DEF Next, vars, Request, OnDismissPermissionPrompt, Commit, Arrive, BrowserGone, OpenTab,
         ActivateTab, CloseTab, EnterPrivateMode, ExitPrivateMode, Edit,
         HandleAddressUserAction, GiveUpEditing, EnterAddress
<1> QED BY <1>2, <1>3, <1>4, <1>5

\* The rules and their file come out of private mode as they went in.
THEOREM PrivateModeLeavesNoRule ==
  ASSUME ~LateRequests PROVE Spec => NothingPrivateIsRemembered
<1> DEFINE RulesKept ==
             private \/ (banner # NoPrompt /\ pending[banner].tab \in Ephemeral)
               => /\ file'.rules = file.rules
                  /\ policy'.origin \in {policy.origin, file.rules}
<1>1. PermissionsSafe /\ [Next]_vars => [RulesKept]_vars
  BY StepRemembersNothingPrivate
<1>2. Spec => [][RulesKept]_vars
  BY <1>1, SafeAlways, PTL DEF Spec
<1> QED BY <1>2 DEF NothingPrivateIsRemembered

-----------------------------------------------------------------------------
\* Profile data.

Addresses == Urls \cup {NewTabPage}
Workspaces == {WorkspaceOf[t] : t \in AllTabs}
Entries == [id: Nat, url: Addresses, ws: Workspaces]
Bookmarks == [id: Nat, url: Addresses, ws: Workspaces, created: Nat]

\* One id, one bookmark.
IdsTellApart(items) ==
  \A i, j \in 1 .. Len(items) : items[i].id = items[j].id => items[i] = items[j]

SessionSafe(s) ==
  /\ s \in [active: AllTabs, private: BOOLEAN, page: [AllTabs -> Addresses],
            last: [AllTabs -> Addresses]]
  /\ s.private <=> s.active = PrivateTab

\* The managers: every id was given by them, and none twice.
DataSafe(d) ==
  /\ d = [history |-> d.history, bookmarks |-> d.bookmarks, settings |-> d.settings]
  /\ d.history \in [entries: Seq(Entries), next: Nat]
  /\ d.bookmarks \in [items: Seq(Bookmarks), next: Nat]
  /\ IdsTellApart(d.bookmarks.items)
  /\ \A i \in 1 .. Len(d.bookmarks.items) : d.bookmarks.items[i].id < d.bookmarks.next

\* What was pushed in this run is what the bookmark of its id, if there is still one, is.
StoreSafe(st, m) ==
  \A rec \in st :
    /\ rec.version = 1 /\ rec.id \in Nat /\ rec.id < m.next
    /\ \A i \in 1 .. Len(m.items) : m.items[i].id = rec.id => rec = SyncRecord(m.items[i])

\* Whatever is on disk can be loaded, and is what is in memory unless its save failed.
FilesSafe(fs, sv, d) ==
  /\ fs = [f \in FilesSaved |-> fs[f]] /\ sv = [failed |-> sv.failed, left |-> sv.left]
  /\ fs["history"] \in Seq(Entries) /\ fs["bookmarks"] \in Seq(Bookmarks)
  /\ IdsTellApart(fs["bookmarks"])
  /\ "history" \notin sv.failed => fs["history"] = d.history.entries
  /\ "bookmarks" \notin sv.failed => fs["bookmarks"] = d.bookmarks.items
  /\ "settings" \notin sv.failed => fs["settings"] = d.settings

InData(row, d) ==
  \/ \E j \in DOMAIN d.history.entries : d.history.entries[j] = row
  \/ \E j \in DOMAIN d.bookmarks.items : d.bookmarks.items[j] = row

LibrarySafe(v, s, d) ==
  /\ s.private /\ v.section = "history" => v.rows = <<>>
  /\ \A i \in DOMAIN v.rows : InData(v.rows[i], d)

IsViews(v) ==
  v = [drawer |-> v.drawer, section |-> v.section, rows |-> v.rows, removable |-> v.removable,
       bar |-> v.bar, typed |-> v.typed]

ViewsSafe(v, s, d) ==
  /\ IsViews(v)
  /\ v.bar = ListBookmarks(d.bookmarks, CurrentWorkspaceId(s))
  /\ v.drawer = "library" => LibrarySafe(v, s, d)

Bounds == [runs: Nat, turns: Nat, clock: Nat]

\* The inductive invariant.
ProfileSafe ==
  /\ SessionSafe(session) /\ DataSafe(data)
  /\ StoreSafe(store, data.bookmarks)
  /\ FilesSafe(files, saves, data)
  /\ ViewsSafe(views, session, data)
  /\ effect = Applied(data.settings)
  /\ bounds \in Bounds

\* What the action properties ask of a step.
PrivateKept ==
  session.private /\ session'.private =>
    /\ data'.history = data.history /\ data'.bookmarks = data.bookmarks
    /\ \A f \in {"history", "bookmarks", "sync"} : files'[f] = files[f]

RestartKept ==
  bounds'.runs # bounds.runs =>
    /\ "history" \notin saves.failed => data'.history.entries = data.history.entries
    /\ "bookmarks" \notin saves.failed => data'.bookmarks.items = data.bookmarks.items
    /\ "settings" \notin saves.failed => data'.settings = data.settings

SyncHolds ==
  files'["sync"] # files["sync"] =>
    \A i \in DOMAIN data.bookmarks.items :
      \E rec \in files'["sync"] :
        rec.id = data.bookmarks.items[i].id /\ rec.url = data.bookmarks.items[i].url

\* A step that is as it should be.
StepIsGood == ProfileSafe' /\ PrivateKept /\ RestartKept /\ SyncHolds

-----------------------------------------------------------------------------
\* The managers' operations.

LEMMA HighestIs ==
  ASSUME NEW T, NEW s \in Seq(T), \A i \in 1 .. Len(s) : s[i].id \in Nat
  PROVE  HighestId(s) \in Nat /\ \A i \in 1 .. Len(s) : s[i].id <= HighestId(s)
<1> DEFINE n == Len(s)
           UpTo(k) == {0} \cup {s[i].id : i \in 1 .. k}
           Highest(k, x) == x \in UpTo(k) /\ \A y \in UpTo(k) : x >= y
           Bad == {k \in 0 .. n : ~ \E x : Highest(k, x)}
<1>1. n \in Nat /\ DOMAIN s = 1 .. n
  BY LenProperties
<1>2. \A k \in 0 .. n : UpTo(k) \subseteq Nat
  BY <1>1
<1>3. Bad = {}
  <2> SUFFICES ASSUME Bad # {} PROVE FALSE
    OBVIOUS
  <2>1. PICK m \in Bad : \A y \in Bad : m <= y
    <3>1. Bad \in SUBSET Nat
      BY <1>1
    <3> HIDE DEF Bad
    <3> QED BY <3>1, LeastElement
  <2>2. m \in 0 .. n /\ ~ \E x : Highest(m, x)
    OBVIOUS
  <2>3. m # 0
    <3> SUFFICES ASSUME m = 0 PROVE FALSE
      OBVIOUS
    <3>1. Highest(0, 0)
      OBVIOUS
    <3> QED BY <2>2, <3>1
  <2>4. m - 1 \in 0 .. n /\ m - 1 \notin Bad /\ m \in 1 .. n
    <3>1. m \in Nat /\ m - 1 \in Nat /\ m - 1 <= n /\ ~(m <= m - 1)
      BY <1>1, <2>2, <2>3
    <3>2. m - 1 \notin Bad
      <4> HIDE DEF Bad
      <4> QED BY <2>1, <3>1
    <3> HIDE DEF Bad
    <3> QED BY <1>1, <2>2, <3>1, <3>2
  <2>5. PICK x : Highest(m - 1, x)
    BY <2>4
  <2>6. \A y : y \in UpTo(m) <=> y \in UpTo(m - 1) \/ y = s[m].id
    <3>1. \A i : i \in 1 .. m <=> i \in 1 .. m - 1 \/ i = m
      BY <1>1, <2>4
    <3> QED BY <3>1
  <2>7. x \in Nat /\ s[m].id \in Nat
    BY <1>2, <2>4, <2>5
  <2> DEFINE top == IF x >= s[m].id THEN x ELSE s[m].id
  <2>8. Highest(m, top)
    <3>1. top \in UpTo(m)
      BY <2>5, <2>6
    <3>2. \A y \in UpTo(m - 1) : y \in Nat /\ x >= y
      BY <1>2, <2>4, <2>5
    <3>3. ASSUME NEW y \in UpTo(m) PROVE top >= y
      <4>1. CASE y = s[m].id
        BY <2>7, <4>1
      <4>2. CASE y \in UpTo(m - 1)
        <5>1. y \in Nat /\ x >= y
          BY <3>2, <4>2
        <5> QED BY <2>7, <5>1
      <4> QED BY <2>6, <3>3, <4>1, <4>2
    <3> QED BY <3>1, <3>3
  <2> QED BY <2>2, <2>8
<1>4. \E x : Highest(n, x)
  <2>1. n \in 0 .. n
    BY <1>1
  <2>2. n \notin Bad
    <3> HIDE DEF Bad
    <3> QED BY <1>3
  <2> QED BY <2>1, <2>2
<1> DEFINE S == {0} \cup {s[i].id : i \in DOMAIN s}
<1>5. S = UpTo(n)
  BY <1>1
<1>6. HighestId(s) = CHOOSE x \in S : \A y \in S : x >= y
  BY DEF HighestId, Max
<1>7. \E x \in S : \A y \in S : x >= y
  BY <1>4, <1>5
<1>8. HighestId(s) \in S /\ \A y \in S : HighestId(s) >= y
  BY <1>6, <1>7
<1>9. S \subseteq Nat
  BY <1>1, <1>2, <1>5
<1>10. \A i \in 1 .. n : s[i].id \in S
  BY <1>1
<1> HIDE DEF S, n
<1>11. \A i \in 1 .. n : s[i].id <= HighestId(s)
  BY <1>8, <1>9, <1>10
<1> QED BY <1>8, <1>9, <1>11 DEF n

\* Filters by what they keep.
LEMMA FilteredAre ==
  ASSUME NEW T, NEW s \in Seq(T), NEW S
  PROVE  /\ Kept(s, S) \in Seq(T)
         /\ DOMAIN Kept(s, S) = 1 .. Len(Kept(s, S))
         /\ \A k \in 1 .. Len(Kept(s, S)) :
              Kept(s, S)[k] \in S /\ \E j \in 1 .. Len(s) : Kept(s, S)[k] = s[j]
<1> DEFINE R == {s[i] : i \in DOMAIN s}
           z == Kept(s, S)
<1>1. Len(s) \in Nat /\ DOMAIN s = 1 .. Len(s) /\ s = [i \in 1 .. Len(s) |-> s[i]]
  BY LenProperties
<1>2. s \in Seq(R)
  BY <1>1
<1>3. z \in Seq(R \cap S) /\ z \in Seq(T \cap S)
  BY <1>2, KeptType
<1> HIDE DEF z
<1>4. DOMAIN z = 1 .. Len(z) /\ \A k \in 1 .. Len(z) : z[k] \in R \cap S
  BY <1>3, LenProperties, ElementOfSeq
<1>5. z \in Seq(T)
  BY <1>3
<1>6. \A k \in 1 .. Len(z) : \E j \in 1 .. Len(s) : z[k] = s[j]
  BY <1>1, <1>4
<1> QED BY <1>4, <1>5, <1>6 DEF z

\* A recorded visit changes neither bookmarks nor settings, and lists what was listed.
LEMMA VisitRecorded ==
  ASSUME NEW h \in [entries: Seq(Entries), next: Nat], NEW url \in Addresses,
         NEW ws \in Workspaces, NEW d, d = RecordVisit(h, url, ws)
  PROVE  /\ d \in [entries: Seq(Entries), next: Nat]
         /\ \A i \in DOMAIN h.entries : \E j \in DOMAIN d.entries : d.entries[j] = h.entries[i]
<1> DEFINE s == h.entries
           n == Len(s)
<1>1. s \in Seq(Entries) /\ n \in Nat /\ DOMAIN s = 1 .. n /\ h.next \in Nat
  BY LenProperties
<1>2. CASE SamePage(h, url, ws) # {}
  <2> DEFINE i == CHOOSE i \in SamePage(h, url, ws) : TRUE
             rest == RemoveAt(s, i)
             moved == <<s[i]>> \o rest
  <2>1. i \in 1 .. n
    BY <1>1, <1>2 DEF SamePage
  <2> HIDE DEF i
  <2>2. /\ rest \in Seq(Entries) /\ Len(rest) = n - 1
        /\ \A k \in 1 .. n - 1 : rest[k] = IF k < i THEN s[k] ELSE s[k + 1]
    BY <1>1, <2>1, RemoveAtProperties
  <2>3. s[i] \in Entries
    BY <1>1, <2>1, ElementOfSeq
  <2> HIDE DEF rest
  <2>4. /\ moved \in Seq(Entries) /\ Len(moved) = n /\ moved[1] = s[i]
        /\ \A k \in 1 .. n - 1 : moved[k + 1] = rest[k]
    BY <1>1, <2>1, <2>2, <2>3
  <2> HIDE DEF moved
  <2>5. ASSUME NEW k \in 1 .. n PROVE \E j \in 1 .. n : moved[j] = s[k]
    <3>1. CASE k = i
      BY <1>1, <2>1, <2>4, <3>1
    <3>2. CASE k < i
      <4>1. k \in 1 .. n - 1 /\ k + 1 \in 1 .. n
        BY <1>1, <2>1, <3>2
      <4>2. moved[k + 1] = s[k]
        BY <2>2, <2>4, <3>2, <4>1
      <4> QED BY <4>1, <4>2
    <3>3. CASE k > i
      <4>1. k - 1 \in 1 .. n - 1 /\ ~(k - 1 < i) /\ (k - 1) + 1 = k
        BY <1>1, <2>1, <3>3
      <4>2. moved[(k - 1) + 1] = rest[k - 1] /\ rest[k - 1] = s[(k - 1) + 1]
        BY <2>2, <2>4, <4>1
      <4> QED BY <4>1, <4>2
    <3> QED BY <1>1, <2>1, <3>1, <3>2, <3>3
  <2>6. d = [h EXCEPT !.entries = moved]
    BY <1>2 DEF RecordVisit, moved, rest, i
  <2>7. d.entries = moved /\ d.next = h.next /\ d \in [entries: Seq(Entries), next: Nat]
    BY <2>4, <2>6
  <2>8. DOMAIN moved = 1 .. n
    BY <2>4, LenProperties
  <2> QED BY <1>1, <2>5, <2>7, <2>8
<1>3. CASE SamePage(h, url, ws) = {}
  <2> DEFINE row == [id |-> h.next, url |-> url, ws |-> ws]
             more == <<row>> \o s
  <2>1. d = [entries |-> more, next |-> h.next + 1]
    BY <1>3 DEF RecordVisit
  <2>2. row \in Entries
    BY <1>1 DEF Entries
  <2> HIDE DEF row
  <2>3. /\ more \in Seq(Entries) /\ Len(more) = n + 1
        /\ \A k \in 1 .. n : more[k + 1] = s[k]
    BY <1>1, <2>2
  <2> HIDE DEF more
  <2>4. DOMAIN more = 1 .. n + 1
    BY <2>3, LenProperties
  <2>5. \A k \in 1 .. n : k + 1 \in 1 .. n + 1
    BY <1>1
  <2>6. h.next + 1 \in Nat
    BY <1>1
  <2>7. d.entries = more /\ d \in [entries: Seq(Entries), next: Nat]
    BY <2>1, <2>3, <2>6
  <2> QED BY <1>1, <2>3, <2>4, <2>5, <2>7
<1> QED BY <1>2, <1>3

\* The first entries.
LEMMA HistoryListed ==
  ASSUME NEW h, h.entries \in Seq(Entries)
  PROVE  \A i \in DOMAIN ListHistory(h) :
           \E j \in DOMAIN h.entries : h.entries[j] = ListHistory(h)[i]
<1> DEFINE s == h.entries
           m == Min({HistoryLimit, Len(s)})
<1>1. Len(s) \in Nat /\ DOMAIN s = 1 .. Len(s) /\ HistoryLimit \in Nat
  BY LenProperties, LimitAssumption
<1>2. m \in {HistoryLimit, Len(s)} /\ m <= Len(s)
  <2> DEFINE S == {HistoryLimit, Len(s)}
  <2>1. \E x \in S : \A y \in S : x =< y
    BY <1>1
  <2>2. m \in S /\ \A y \in S : m =< y
    BY <2>1 DEF Min
  <2> QED BY <2>2
<1>3. m \in Nat
  BY <1>1, <1>2
<1> HIDE DEF m
<1> DEFINE r == SubSeq(s, 1, m)
<1>4. Len(r) = m /\ DOMAIN r = 1 .. m /\ \A i \in 1 .. m : r[i] = s[i]
  BY <1>1, <1>2, <1>3
<1>5. ListHistory(h) = r
  BY DEF ListHistory, m
<1> HIDE DEF r
<1> QED BY <1>1, <1>2, <1>3, <1>4, <1>5

LEMMA BookmarksListed ==
  ASSUME NEW m, m.items \in Seq(Bookmarks), NEW ws
  PROVE  \A i \in DOMAIN ListBookmarks(m, ws) :
           \E j \in DOMAIN m.items : m.items[j] = ListBookmarks(m, ws)[i]
<1> DEFINE s == m.items
           S == {b \in ToSet(s) : b.ws = ws}
           z == Kept(s, S)
<1>1. s \in Seq(Bookmarks) /\ DOMAIN s = 1 .. Len(s)
  BY LenProperties
<1>2. ListBookmarks(m, ws) = z
  BY DEF ListBookmarks
<1> HIDE DEF S
<1>3. DOMAIN z = 1 .. Len(z) /\ \A k \in 1 .. Len(z) : \E j \in 1 .. Len(s) : z[k] = s[j]
  BY <1>1, FilteredAre
<1> HIDE DEF z
<1> QED BY <1>1, <1>2, <1>3

LEMMA BookmarkAdded ==
  ASSUME NEW m \in [items: Seq(Bookmarks), next: Nat], IdsTellApart(m.items),
         \A i \in 1 .. Len(m.items) : m.items[i].id < m.next,
         NEW url \in Addresses, NEW ws \in Workspaces, NEW now \in Nat,
         NEW d, d = AddBookmark(m, url, ws, now),
         NEW st, StoreSafe(st, m)
  PROVE  /\ d \in [items: Seq(Bookmarks), next: Nat] /\ IdsTellApart(d.items)
         /\ \A i \in 1 .. Len(d.items) : d.items[i].id < d.next
         /\ \A i \in DOMAIN m.items : \E j \in DOMAIN d.items : d.items[j] = m.items[i]
         /\ StoreSafe(st, d)
<1> DEFINE s == m.items
           n == Len(s)
           new == [id |-> m.next, url |-> url, ws |-> ws, created |-> now]
           more == Append(s, new)
<1>1. s \in Seq(Bookmarks) /\ n \in Nat /\ DOMAIN s = 1 .. n /\ m.next \in Nat
  BY LenProperties
<1>2. CASE IsBookmarked(m, url)
  <2>1. d = m
    BY <1>2 DEF AddBookmark
  <2> QED BY <2>1
<1>3. CASE ~IsBookmarked(m, url)
  <2>1. d = [items |-> more, next |-> m.next + 1]
    BY <1>3 DEF AddBookmark
  <2>2. new \in Bookmarks /\ new.id = m.next
    BY <1>1 DEF Bookmarks
  <2>3. \A i \in 1 .. n : s[i] \in Bookmarks /\ s[i].id \in Nat /\ s[i].id < m.next
    <3>1. \A i \in 1 .. n : s[i] \in Bookmarks
      BY <1>1, ElementOfSeq
    <3> QED BY <3>1 DEF Bookmarks
  <2> HIDE DEF new
  <2>4. /\ more \in Seq(Bookmarks) /\ Len(more) = n + 1 /\ more[n + 1] = new
        /\ \A i \in 1 .. n : more[i] = s[i]
    BY <1>1, <2>2, AppendProperties
  <2> HIDE DEF more
  <2>5. DOMAIN more = 1 .. n + 1
    BY <2>4, LenProperties
  <2>6. \A i \in 1 .. n + 1 : i \in 1 .. n \/ i = n + 1
    BY <1>1
  <2>7. d.items = more /\ d.next = m.next + 1 /\ d \in [items: Seq(Bookmarks), next: Nat]
    BY <1>1, <2>1, <2>4
  <2>8. \A i \in 1 .. n + 1 : more[i].id < m.next + 1
    BY <1>1, <2>2, <2>3, <2>4, <2>6
  <2>9. IdsTellApart(more)
    BY <1>1, <2>2, <2>3, <2>4, <2>6 DEF IdsTellApart
  <2>10. StoreSafe(st, d)
    <3> SUFFICES ASSUME NEW rec \in st
                 PROVE  /\ rec.version = 1 /\ rec.id \in Nat /\ rec.id < d.next
                        /\ \A i \in 1 .. Len(d.items) :
                             d.items[i].id = rec.id => rec = SyncRecord(d.items[i])
      BY DEF StoreSafe
    <3>1. rec.version = 1 /\ rec.id \in Nat /\ rec.id < m.next
          /\ \A i \in 1 .. n : s[i].id = rec.id => rec = SyncRecord(s[i])
      BY DEF StoreSafe
    <3>2. rec.id < d.next
      <4> DEFINE id == rec.id
      <4>1. id \in Nat /\ id < m.next /\ m.next \in Nat
        BY <1>1, <3>1
      <4> HIDE DEF id
      <4>2. id < m.next + 1
        BY <4>1
      <4> QED BY <2>7, <4>2 DEF id
    <3>3. ASSUME NEW i \in 1 .. Len(d.items), d.items[i].id = rec.id
          PROVE  rec = SyncRecord(d.items[i])
      <4>1. i \in 1 .. n \/ i = n + 1
        BY <2>4, <2>6, <2>7
      <4>2. CASE i \in 1 .. n
        BY <2>4, <2>7, <3>1, <3>3, <4>2
      <4>3. CASE i = n + 1
        <5>1. rec.id = m.next
          BY <2>2, <2>4, <2>7, <3>3, <4>3
        <5> QED BY <1>1, <3>1, <5>1
      <4> QED BY <4>1, <4>2, <4>3
    <3> QED BY <3>1, <3>2, <3>3
  <2>11. \A i \in 1 .. n : i \in 1 .. n + 1
    BY <1>1
  <2> QED BY <1>1, <2>4, <2>5, <2>7, <2>8, <2>9, <2>10, <2>11
<1> QED BY <1>2, <1>3

LEMMA BookmarkRemoved ==
  ASSUME NEW m \in [items: Seq(Bookmarks), next: Nat], IdsTellApart(m.items),
         \A i \in 1 .. Len(m.items) : m.items[i].id < m.next,
         NEW id, NEW d, d = RemoveBookmark(m, id),
         NEW st, StoreSafe(st, m)
  PROVE  /\ d \in [items: Seq(Bookmarks), next: Nat] /\ IdsTellApart(d.items)
         /\ \A i \in 1 .. Len(d.items) : d.items[i].id < d.next
         /\ StoreSafe(st, d)
<1> DEFINE s == m.items
           S == {b \in ToSet(s) : b.id # id}
           z == Kept(s, S)
<1>1. s \in Seq(Bookmarks) /\ m.next \in Nat
  OBVIOUS
<1>3. d = [m EXCEPT !.items = z]
  BY DEF RemoveBookmark, WithoutId
<1> HIDE DEF S
<1>2. z \in Seq(Bookmarks) /\ \A k \in 1 .. Len(z) : \E j \in 1 .. Len(s) : z[k] = s[j]
  BY <1>1, FilteredAre
<1> HIDE DEF z
<1>4. d = [items |-> z, next |-> m.next]
  BY <1>3
<1>5. IdsTellApart(z)
  BY <1>2 DEF IdsTellApart
<1>6. StoreSafe(st, d)
  <2> SUFFICES ASSUME NEW rec \in st
               PROVE  /\ rec.version = 1 /\ rec.id \in Nat /\ rec.id < d.next
                      /\ \A i \in 1 .. Len(d.items) :
                           d.items[i].id = rec.id => rec = SyncRecord(d.items[i])
    BY DEF StoreSafe
  <2>1. /\ rec.version = 1 /\ rec.id \in Nat /\ rec.id < m.next
        /\ \A j \in 1 .. Len(s) : s[j].id = rec.id => rec = SyncRecord(s[j])
    BY DEF StoreSafe
  <2>2. d.items = z /\ d.next = m.next
    BY <1>4
  <2>3. \A k \in 1 .. Len(z) : z[k].id = rec.id => rec = SyncRecord(z[k])
    BY <1>2, <2>1
  <2> QED BY <2>1, <2>2, <2>3
<1>7. d.items = z /\ d.next = m.next /\ d \in [items: Seq(Bookmarks), next: Nat]
  BY <1>1, <1>2, <1>4
<1>8. \A k \in 1 .. Len(z) : z[k].id < m.next
  BY <1>2
<1> QED BY <1>5, <1>6, <1>7, <1>8

LEMMA EntryRemoved ==
  ASSUME NEW h \in [entries: Seq(Entries), next: Nat], NEW id
  PROVE  RemoveEntry(h, id) \in [entries: Seq(Entries), next: Nat]
<1> DEFINE s == h.entries
           S == {x \in ToSet(s) : x.id # id}
           z == Kept(s, S)
<1>1. RemoveEntry(h, id) = [h EXCEPT !.entries = z]
  BY DEF RemoveEntry, WithoutId
<1>2. s \in Seq(Entries)
  OBVIOUS
<1> HIDE DEF S
<1>3. z \in Seq(Entries)
  BY <1>2, FilteredAre
<1> HIDE DEF z
<1> QED BY <1>1, <1>3

\* What is loaded gets ids above those it has.
LEMMA HistoryLoaded ==
  ASSUME NEW doc \in Seq(Entries)
  PROVE  LoadHistory(doc) \in [entries: Seq(Entries), next: Nat]
<1>0. \A i \in 1 .. Len(doc) : doc[i] \in Entries
  BY ElementOfSeq
<1>1. \A i \in 1 .. Len(doc) : doc[i].id \in Nat
  BY <1>0 DEF Entries
<1>2. HighestId(doc) \in Nat
  BY <1>1, HighestIs
<1> QED BY <1>2 DEF LoadHistory

LEMMA BookmarksLoaded ==
  ASSUME NEW doc \in Seq(Bookmarks)
  PROVE  /\ LoadBookmarks(doc) \in [items: Seq(Bookmarks), next: Nat]
         /\ LoadBookmarks(doc).items = doc
         /\ \A i \in 1 .. Len(doc) : doc[i].id < LoadBookmarks(doc).next
<1>0. \A i \in 1 .. Len(doc) : doc[i] \in Bookmarks
  BY ElementOfSeq
<1>1. \A i \in 1 .. Len(doc) : doc[i].id \in Nat
  BY <1>0 DEF Bookmarks
<1>2. HighestId(doc) \in Nat /\ \A i \in 1 .. Len(doc) : doc[i].id <= HighestId(doc)
  BY <1>1, HighestIs
<1> QED BY <1>1, <1>2 DEF LoadBookmarks

-----------------------------------------------------------------------------
\* The push of all bookmarks.

\* A record that is pushed replaces the one of its bookmark and no other.
LEMMA RecordPushed ==
  ASSUME NEW m, m.items \in Seq(Bookmarks), IdsTellApart(m.items),
         \A i \in 1 .. Len(m.items) : m.items[i].id < m.next,
         NEW st, StoreSafe(st, m), NEW k \in 1 .. Len(m.items)
  PROVE  /\ StoreSafe(PushRecord(st, SyncRecord(m.items[k])), m)
         /\ SyncRecord(m.items[k]) \in PushRecord(st, SyncRecord(m.items[k]))
         /\ \A j \in 1 .. Len(m.items) :
              SyncRecord(m.items[j]) \in st
                => SyncRecord(m.items[j]) \in PushRecord(st, SyncRecord(m.items[k]))
<1> DEFINE s == m.items
           rec == SyncRecord(s[k])
<1>1. \A j \in 1 .. Len(s) : s[j] \in Bookmarks
  BY ElementOfSeq
<1>2. \A j \in 1 .. Len(s) :
        /\ SyncRecord(s[j]).id = s[j].id /\ SyncRecord(s[j]).id \in Nat
        /\ SyncRecord(s[j]).version = 1 /\ SyncRecord(s[j]).time \in Nat
  BY <1>1 DEF SyncRecord, Bookmarks
<1>3. \A old \in st : old.id = rec.id => old = rec
  BY <1>2 DEF StoreSafe
<1>4. Supersedes(rec, rec)
  BY <1>2 DEF Supersedes
<1>5. PushRecord(st, rec) = {old \in st : old.id # rec.id} \cup {rec}
  BY <1>3, <1>4 DEF PushRecord
<1> DEFINE d == PushRecord(st, rec)
<1>6. \A j \in 1 .. Len(s) : SyncRecord(s[j]).id = rec.id => SyncRecord(s[j]) = rec
  BY <1>2 DEF IdsTellApart
<1>7. StoreSafe({rec}, m)
  BY <1>2 DEF StoreSafe, IdsTellApart
<1>8. StoreSafe(d, m)
  BY <1>5, <1>7 DEF StoreSafe
<1> QED BY <1>5, <1>6, <1>8

\* One step of the recursion PushRecords is defined by.
PushStep(st, items, g, i) ==
  IF i = 0 THEN st ELSE PushRecord(g[i - 1], SyncRecord(items[i]))

LEMMA PushExists ==
  ASSUME NEW n \in Nat, NEW st, NEW items
  PROVE  \E g : g = [i \in 0 .. n |-> PushStep(st, items, g, i)]
<1> DEFINE IsUpTo(k, g) == g = [i \in 0 .. k |-> PushStep(st, items, g, i)]
           Bad == {k \in 0 .. n : ~ \E g : IsUpTo(k, g)}
<1>1. SUFFICES ASSUME Bad # {} PROVE FALSE
  OBVIOUS
<1>2. PICK m \in Bad : \A y \in Bad : m <= y
  <2>1. Bad \in SUBSET Nat
    OBVIOUS
  <2> QED BY <1>1, <2>1, LeastElement
<1>3. CASE m = 0
  <2> DEFINE h == [i \in 0 .. 0 |-> st]
  <2>1. h = [i \in 0 .. 0 |-> PushStep(st, items, h, i)]
    BY DEF PushStep
  <2> QED BY <1>3, <2>1
<1>4. CASE m # 0
  <2>1. PICK g : IsUpTo(m - 1, g)
    BY <1>2, <1>4
  <2> DEFINE h == [i \in 0 .. m |-> IF i = m THEN PushStep(st, items, g, m) ELSE g[i]]
  <2>2. m \in Nat \ {0}
    BY <1>2, <1>4
  <2>3. \A i \in 0 .. m : h[i] = PushStep(st, items, h, i)
    <3> SUFFICES ASSUME NEW i \in 0 .. m PROVE h[i] = PushStep(st, items, h, i)
      OBVIOUS
    <3>1. i # 0 => h[i - 1] = g[i - 1]
      BY <2>2
    <3>2. PushStep(st, items, h, i) = PushStep(st, items, g, i)
      BY <3>1 DEF PushStep
    <3>3. i # m => g[i] = PushStep(st, items, g, i)
      BY <2>1, <2>2
    <3> QED BY <3>2, <3>3
  <2>4. h = [i \in 0 .. m |-> PushStep(st, items, h, i)]
    BY <2>3
  <2> QED BY <2>4
<1> QED BY <1>3, <1>4

\* After a push the store holds every bookmark under its own id.
LEMMA AllPushed ==
  ASSUME NEW m, m.items \in Seq(Bookmarks), IdsTellApart(m.items),
         \A i \in 1 .. Len(m.items) : m.items[i].id < m.next,
         NEW st, StoreSafe(st, m), NEW d, d = PushRecords(st, m.items)
  PROVE  StoreSafe(d, m) /\ \A i \in 1 .. Len(m.items) : SyncRecord(m.items[i]) \in d
<1> DEFINE s == m.items
           n == Len(s)
           f == CHOOSE g : g = [i \in 0 .. n |-> PushStep(st, s, g, i)]
<1>1. d = f[n]
  BY DEF PushRecords, PushStep
<1>2. n \in Nat
  BY LenProperties
<1>3. f = [i \in 0 .. n |-> PushStep(st, s, f, i)]
  BY <1>2, PushExists, SMTT(40), ZenonT(40)
<1> HIDE DEF f
<1> DEFINE Good(i) == StoreSafe(f[i], m) /\ \A j \in 1 .. i : SyncRecord(s[j]) \in f[i]
           Bad == {i \in 0 .. n : ~Good(i)}
<1>4. Bad = {}
  <2> SUFFICES ASSUME Bad # {} PROVE FALSE
    OBVIOUS
  <2>1. PICK i \in Bad : \A y \in Bad : i <= y
    <3>1. Bad \in SUBSET Nat
      BY <1>2
    <3> HIDE DEF Bad
    <3> QED BY <3>1, LeastElement
  <2>2. i \in 0 .. n /\ ~Good(i) /\ f[i] = PushStep(st, s, f, i)
    BY <1>3
  <2>3. CASE i = 0
    BY <2>2, <2>3 DEF PushStep
  <2>4. CASE i # 0
    <3>1. i \in 1 .. n /\ i - 1 \in 0 .. n /\ ~(i <= i - 1)
      BY <1>2, <2>2, <2>4
    <3>2. i - 1 \notin Bad
      <4> HIDE DEF Bad
      <4> QED BY <2>1, <3>1
    <3>3. Good(i - 1)
      BY <3>1, <3>2
    <3>4. f[i] = PushRecord(f[i - 1], SyncRecord(s[i]))
      BY <2>2, <2>4 DEF PushStep
    <3>5. /\ StoreSafe(f[i], m) /\ SyncRecord(s[i]) \in f[i]
          /\ \A j \in 1 .. n : SyncRecord(s[j]) \in f[i - 1] => SyncRecord(s[j]) \in f[i]
      <4> DEFINE st0 == f[i - 1]
      <4>1. StoreSafe(st0, m)
        BY <3>3
      <4> HIDE DEF st0
      <4>2. /\ StoreSafe(PushRecord(st0, SyncRecord(s[i])), m)
            /\ SyncRecord(s[i]) \in PushRecord(st0, SyncRecord(s[i]))
            /\ \A j \in 1 .. n : SyncRecord(s[j]) \in st0
                 => SyncRecord(s[j]) \in PushRecord(st0, SyncRecord(s[i]))
        BY <3>1, <4>1, RecordPushed
      <4> QED BY <3>4, <4>2 DEF st0
    <3>6. \A j \in 1 .. i : j \in 1 .. n /\ (j \in 1 .. i - 1 \/ j = i)
      BY <1>2, <3>1
    <3>7. Good(i)
      BY <3>3, <3>5, <3>6
    <3> QED BY <2>2, <3>7
  <2> QED BY <2>3, <2>4
<1>5. Good(n)
  <2>1. n \in 0 .. n
    BY <1>2
  <2>2. n \notin Bad
    <3> HIDE DEF Bad
    <3> QED BY <1>4
  <2> QED BY <2>1, <2>2
<1> QED BY <1>1, <1>5

-----------------------------------------------------------------------------
\* Saves.

LEMMA Documents ==
  /\ Document("history") = data.history.entries /\ Document("history")' = data'.history.entries
  /\ Document("bookmarks") = data.bookmarks.items
  /\ Document("bookmarks")' = data'.bookmarks.items
  /\ Document("settings") = data.settings /\ Document("settings")' = data'.settings
  /\ Document("sync")' = store'
BY DEF Document

\* What a save of the files in fs leaves on disk: the new document, or the old one with
\* the failure noted; the other files are not touched.
Stored(fs) ==
  /\ files' = [f \in FilesSaved |-> files'[f]]
  /\ saves' = [failed |-> saves'.failed, left |-> saves'.left]
  /\ \A f \in FilesSaved \ fs :
       files'[f] = files[f] /\ (f \in saves.failed <=> f \in saves'.failed)
  /\ \A f \in fs : IF f \in saves'.failed THEN files'[f] = files[f]
                                          ELSE files'[f] = Document(f)'

LEMMA SaveStores ==
  ASSUME NEW fs \in SUBSET FilesSaved, Save(fs)
  PROVE  Stored(fs)
<1>1. PICK lost \in SUBSET fs :
        /\ files' = [f \in FilesSaved |-> IF f \in fs \ lost THEN Document(f)' ELSE files[f]]
        /\ saves' = [failed |-> (saves.failed \ fs) \cup lost,
                     left |-> saves.left - Cardinality(lost)]
  BY DEF Save
<1>2. saves'.failed = (saves.failed \ fs) \cup lost
  BY <1>1
<1>3. \A f \in FilesSaved : files'[f] = IF f \in fs \ lost THEN Document(f)' ELSE files[f]
  BY <1>1
<1>4. files' = [f \in FilesSaved |-> files'[f]]
  BY <1>1
<1>5. saves' = [failed |-> saves'.failed, left |-> saves'.left]
  BY <1>1
<1> QED BY <1>2, <1>3, <1>4, <1>5 DEF Stored

\* When no file is saved nothing happens on disk.
LEMMA NothingStored ==
  ASSUME files = [f \in FilesSaved |-> files[f]], UNCHANGED <<files, saves>>,
         saves = [failed |-> saves.failed, left |-> saves.left]
  PROVE  Stored({})
BY DEF Stored

\* The disk stays sound if every document that changed is saved.
LEMMA DiskStaysSafe ==
  ASSUME FilesSafe(files, saves, data), NEW fs \in SUBSET FilesSaved, Stored(fs), DataSafe(data'),
         "history" \notin fs => data'.history.entries = data.history.entries,
         "bookmarks" \notin fs => data'.bookmarks.items = data.bookmarks.items,
         "settings" \notin fs => data'.settings = data.settings
  PROVE  FilesSafe(files', saves', data')
<1>1. /\ data'.history.entries \in Seq(Entries) /\ data'.bookmarks.items \in Seq(Bookmarks)
      /\ IdsTellApart(data'.bookmarks.items)
  BY DEF DataSafe
<1>2. {"history", "bookmarks", "settings"} \subseteq FilesSaved
  BY DEF FilesSaved
<1>3. \A f \in {"history", "bookmarks", "settings"} :
        \/ f \notin fs /\ files'[f] = files[f] /\ (f \in saves.failed <=> f \in saves'.failed)
        \/ f \in fs /\ f \in saves'.failed /\ files'[f] = files[f]
        \/ f \in fs /\ f \notin saves'.failed /\ files'[f] = Document(f)'
  BY <1>2 DEF Stored
<1>4. \/ "history" \notin fs /\ files'["history"] = files["history"]
           /\ ("history" \in saves.failed <=> "history" \in saves'.failed)
      \/ "history" \in fs /\ "history" \in saves'.failed /\ files'["history"] = files["history"]
      \/ "history" \in fs /\ "history" \notin saves'.failed
           /\ files'["history"] = data'.history.entries
  BY <1>3, Documents
<1>5. \/ "bookmarks" \notin fs /\ files'["bookmarks"] = files["bookmarks"]
           /\ ("bookmarks" \in saves.failed <=> "bookmarks" \in saves'.failed)
      \/ "bookmarks" \in fs /\ "bookmarks" \in saves'.failed
           /\ files'["bookmarks"] = files["bookmarks"]
      \/ "bookmarks" \in fs /\ "bookmarks" \notin saves'.failed
           /\ files'["bookmarks"] = data'.bookmarks.items
  BY <1>3, Documents
<1>6. \/ "settings" \notin fs /\ files'["settings"] = files["settings"]
           /\ ("settings" \in saves.failed <=> "settings" \in saves'.failed)
      \/ "settings" \in fs /\ "settings" \in saves'.failed
           /\ files'["settings"] = files["settings"]
      \/ "settings" \in fs /\ "settings" \notin saves'.failed
           /\ files'["settings"] = data'.settings
  BY <1>3, Documents
<1> QED BY <1>1, <1>4, <1>5, <1>6 DEF FilesSafe, Stored

-----------------------------------------------------------------------------
\* The views.

LEMMA ActiveWorkspace ==
  ASSUME NEW s, SessionSafe(s)
  PROVE  CurrentWorkspaceId(s) \in Workspaces /\ s.active \in AllTabs
BY DEF SessionSafe, CurrentWorkspaceId, Workspaces

\* A library that is built lists what there is, and in private mode no history.
LEMMA BodyRebuilt ==
  ASSUME NEW v, IsViews(v), NEW s, SessionSafe(s), NEW d, DataSafe(d),
         NEW w, w = RebuildBody(v, s, d)
  PROVE  IsViews(w) /\ w.drawer = v.drawer /\ w.bar = v.bar /\ LibrarySafe(w, s, d)
<1> DEFINE rows == IF v.section = "history" THEN AddHistoryRows(s, d) ELSE AddBookmarkRows(s, d)
<1>1. /\ w.rows = rows /\ w.section = v.section /\ w.drawer = v.drawer /\ w.bar = v.bar
      /\ IsViews(w)
  <2> DEFINE r == rows
             x == ~IsPrivateContext(s)
  <2>1. w = [v EXCEPT !.rows = r, !.removable = x]
    BY DEF RebuildBody
  <2> HIDE DEF r, x
  <2>2. /\ w.rows = r /\ w.section = v.section /\ w.drawer = v.drawer /\ w.bar = v.bar
        /\ IsViews(w)
    BY <2>1 DEF IsViews
  <2> QED BY <2>2 DEF r
<1>2. s.private => IsPrivateContext(s)
  BY DEF SessionSafe, IsPrivateContext
<1>3. s.private /\ w.section = "history" => w.rows = <<>>
  BY <1>1, <1>2 DEF AddHistoryRows
<1>4. d.history.entries \in Seq(Entries) /\ d.bookmarks.items \in Seq(Bookmarks)
  BY DEF DataSafe
<1>5. \A i \in DOMAIN AddHistoryRows(s, d) : InData(AddHistoryRows(s, d)[i], d)
  <2>1. CASE IsPrivateContext(s)
    BY <2>1 DEF AddHistoryRows
  <2>2. CASE ~IsPrivateContext(s)
    <3>1. AddHistoryRows(s, d) = ListHistory(d.history)
      BY <2>2 DEF AddHistoryRows
    <3> QED BY <1>4, <3>1, HistoryListed DEF InData
  <2> QED BY <2>1, <2>2
<1>6. \A i \in DOMAIN AddBookmarkRows(s, d) : InData(AddBookmarkRows(s, d)[i], d)
  BY <1>4, BookmarksListed DEF AddBookmarkRows, InData
<1>7. \A i \in DOMAIN rows : InData(rows[i], d)
  BY <1>5, <1>6
<1> QED BY <1>1, <1>3, <1>7 DEF LibrarySafe

LEMMA BarRebuilt ==
  ASSUME NEW v, IsViews(v), NEW s, NEW d, NEW w, w = RebuildBar(v, s, d)
  PROVE  /\ IsViews(w) /\ w.drawer = v.drawer /\ w.rows = v.rows /\ w.section = v.section
         /\ w.bar = ListBookmarks(d.bookmarks, CurrentWorkspaceId(s))
<1> DEFINE b == ListBookmarks(d.bookmarks, CurrentWorkspaceId(s))
<1>1. w = [v EXCEPT !.bar = b]
  BY DEF RebuildBar
<1> HIDE DEF b
<1>2. w.bar = b /\ w.drawer = v.drawer /\ w.rows = v.rows /\ w.section = v.section /\ IsViews(w)
  BY <1>1 DEF IsViews
<1> QED BY <1>2 DEF b

\* Whatever was shown before, the observers leave views of the session as it is.
LEMMA ObservedAreSafe ==
  ASSUME NEW v, IsViews(v), NEW s, SessionSafe(s), NEW d, DataSafe(d)
  PROVE  ViewsSafe(Observed(v, s, d), s, d)
<1> DEFINE barred == RebuildBar(v, s, d)
<1>1. /\ IsViews(barred) /\ barred.drawer = v.drawer
      /\ barred.bar = ListBookmarks(d.bookmarks, CurrentWorkspaceId(s))
  BY BarRebuilt
<1> HIDE DEF barred
<1>2. CASE v.drawer = "library"
  <2>1. Observed(v, s, d) = RebuildBody(barred, s, d)
    BY <1>2 DEF Observed, barred
  <2> DEFINE w == RebuildBody(barred, s, d)
  <2>2. IsViews(w) /\ w.bar = barred.bar /\ LibrarySafe(w, s, d)
    BY <1>1, BodyRebuilt
  <2> HIDE DEF w
  <2> QED BY <1>1, <2>1, <2>2 DEF ViewsSafe, w
<1>3. CASE v.drawer # "library"
  <2>1. Observed(v, s, d) = barred
    BY <1>3 DEF Observed, barred
  <2> QED BY <1>1, <1>3, <2>1 DEF ViewsSafe
<1> QED BY <1>2, <1>3

\* They stay so while what is listed only grows.
LEMMA ViewsStaySafe ==
  ASSUME NEW v, NEW s, NEW d, ViewsSafe(v, s, d),
         NEW t, t.active = s.active, t.private = s.private,
         NEW e, e.bookmarks = d.bookmarks,
         \A i \in DOMAIN d.history.entries :
           \E j \in DOMAIN e.history.entries : e.history.entries[j] = d.history.entries[i]
  PROVE  ViewsSafe(v, t, e)
<1>1. CurrentWorkspaceId(t) = CurrentWorkspaceId(s)
  BY DEF CurrentWorkspaceId
<1>2. \A row : InData(row, d) => InData(row, e)
  BY DEF InData
<1>3. LibrarySafe(v, s, d) => LibrarySafe(v, t, e)
  BY <1>2 DEF LibrarySafe
<1> QED BY <1>1, <1>3 DEF ViewsSafe

-----------------------------------------------------------------------------
\* Steps.

LEMMA TurnCounts ==
  ASSUME ProfileSafe, Turn
  PROVE  bounds' \in Bounds /\ bounds'.runs = bounds.runs
BY DEF ProfileSafe, Turn, Bounds

\* A step that saves what it changes, other than the sync store, and changes nothing in
\* private mode.
LEMMA StepSaves ==
  ASSUME ProfileSafe, NEW fs \in SUBSET {"history", "bookmarks", "settings"}, Stored(fs),
         SessionSafe(session'), DataSafe(data'), StoreSafe(store', data'.bookmarks),
         ViewsSafe(views', session', data'), effect' = Applied(data'.settings),
         bounds' \in Bounds, bounds'.runs = bounds.runs,
         "history" \notin fs => data'.history.entries = data.history.entries,
         "bookmarks" \notin fs => data'.bookmarks.items = data.bookmarks.items,
         "settings" \notin fs => data'.settings = data.settings,
         session.private /\ session'.private =>
           /\ data'.history = data.history /\ data'.bookmarks = data.bookmarks
           /\ fs \subseteq {"settings"}
  PROVE  StepIsGood
<1>1. fs \in SUBSET FilesSaved
  BY DEF FilesSaved
<1>2. FilesSafe(files', saves', data')
  BY <1>1, DiskStaysSafe DEF ProfileSafe
<1>3. ProfileSafe'
  BY <1>2 DEF ProfileSafe
<1>4. \A f \in FilesSaved \ fs : files'[f] = files[f]
  BY DEF Stored
<1>5. "sync" \in FilesSaved \ fs
  BY DEF FilesSaved
<1>6. SyncHolds
  BY <1>4, <1>5 DEF SyncHolds
<1>7. PrivateKept
  <2> SUFFICES ASSUME session.private, session'.private
               PROVE  /\ data'.history = data.history /\ data'.bookmarks = data.bookmarks
                      /\ \A f \in {"history", "bookmarks", "sync"} : files'[f] = files[f]
    BY DEF PrivateKept
  <2>1. \A f \in {"history", "bookmarks", "sync"} : f \in FilesSaved \ fs
    BY DEF FilesSaved
  <2> QED BY <1>4, <2>1
<1>8. RestartKept
  BY DEF RestartKept
<1> QED BY <1>3, <1>6, <1>7, <1>8 DEF StepIsGood

\* The recorder of visits runs after the views were rebuilt, and not in private mode.
LEMMA ObserversTold ==
  ASSUME ProfileSafe, NEW s, SessionSafe(s), NEW v, ViewsSafe(v, s, data),
         NotifyObservers(s, v), UNCHANGED <<store, effect>>,
         bounds' \in Bounds, bounds'.runs = bounds.runs
  PROVE  StepIsGood
<1>1. /\ DataSafe(data) /\ FilesSafe(files, saves, data) /\ StoreSafe(store, data.bookmarks)
      /\ effect = Applied(data.settings) /\ views' = v
  BY DEF ProfileSafe, NotifyObservers
<1>2. CASE Visited(s)
  <2> DEFINE ws == CurrentWorkspaceId(s)
             url == s.page[s.active]
             h == RecordVisit(data.history, url, ws)
  <2>1. /\ session' = [s EXCEPT !.last[s.active] = url]
        /\ data' = [data EXCEPT !.history = h]
        /\ Save({"history"})
    BY <1>2 DEF NotifyObservers
  <2>2. ws \in Workspaces /\ s.active \in AllTabs /\ url \in Addresses
    BY ActiveWorkspace DEF SessionSafe
  <2>3. data.history \in [entries: Seq(Entries), next: Nat]
    BY <1>1 DEF DataSafe
  <2> HIDE DEF ws
  <2>4. /\ h \in [entries: Seq(Entries), next: Nat]
        /\ \A i \in DOMAIN data.history.entries :
             \E j \in DOMAIN h.entries : h.entries[j] = data.history.entries[i]
    <3> HIDE DEF url
    <3> QED BY <2>2, <2>3, VisitRecorded
  <2>5. /\ SessionSafe(session') /\ session'.active = s.active /\ session'.private = s.private
    BY <2>1, <2>2 DEF SessionSafe
  <2> HIDE DEF h
  <2>6. data'.history = h /\ data'.bookmarks = data.bookmarks /\ data'.settings = data.settings
        /\ data' = [history |-> h, bookmarks |-> data.bookmarks, settings |-> data.settings]
    BY <1>1, <2>1 DEF DataSafe
  <2>7. DataSafe(data')
    BY <1>1, <2>4, <2>6 DEF DataSafe
  <2>8. Stored({"history"})
    BY <2>1, SaveStores DEF FilesSaved
  <2>9. ViewsSafe(views', session', data')
    BY <1>1, <2>4, <2>5, <2>6, ViewsStaySafe
  <2>10. ~session'.private
    BY <1>2, <2>5 DEF Visited
  <2> QED BY <1>1, <2>5, <2>6, <2>7, <2>8, <2>9, <2>10, StepSaves
<1>3. CASE ~Visited(s)
  <2>1. session' = s /\ UNCHANGED <<data, files, saves>>
    BY <1>3 DEF NotifyObservers
  <2>2. Stored({})
    BY <1>1, <2>1, NothingStored DEF FilesSafe
  <2> QED BY <1>1, <2>1, <2>2, StepSaves
<1> QED BY <1>2, <1>3

LEMMA SessionMoves ==
  ASSUME ProfileSafe, NEW s, SessionSafe(s), SessionChanges(s)
  PROVE  StepIsGood
<1>1. /\ Turn /\ NotifyObservers(s, Observed(views, s, data)) /\ UNCHANGED <<store, effect>>
  BY DEF SessionChanges
<1>2. ViewsSafe(Observed(views, s, data), s, data)
  BY ObservedAreSafe DEF ProfileSafe, ViewsSafe
<1>3. bounds' \in Bounds /\ bounds'.runs = bounds.runs
  BY <1>1, TurnCounts
<1> QED BY <1>1, <1>2, <1>3, ObserversTold

LEMMA TabSelected ==
  ASSUME ProfileSafe, NEW t \in PublicTabs, SelectTab(t)
  PROVE  StepIsGood
<1> DEFINE s == [session EXCEPT !.active = t]
<1>1. SessionSafe(session) /\ ~session.private /\ SessionChanges(s)
  BY DEF ProfileSafe, SelectTab
<1>2. t \in AllTabs /\ t # PrivateTab
  BY PublicTabsAssumption DEF AllTabs
<1>3. SessionSafe(s)
  BY <1>1, <1>2 DEF SessionSafe
<1> QED BY <1>1, <1>3, SessionMoves

LEMMA PageCommitted ==
  ASSUME ProfileSafe, NEW t \in AllTabs, NEW url \in Urls, CommitPage(t, url)
  PROVE  StepIsGood
<1> DEFINE s == [session EXCEPT !.page[t] = url]
<1>1. SessionSafe(session) /\ SessionChanges(s)
  BY DEF ProfileSafe, CommitPage
<1>2. SessionSafe(s)
  BY <1>1 DEF SessionSafe, Addresses
<1> QED BY <1>1, <1>2, SessionMoves

LEMMA PrivateModeBegins ==
  ASSUME ProfileSafe, SwitchToPrivate
  PROVE  StepIsGood
<1> DEFINE s == [session EXCEPT !.private = TRUE, !.active = PrivateTab]
<1>1. SessionSafe(session) /\ SessionChanges(s)
  BY DEF ProfileSafe, SwitchToPrivate
<1>2. SessionSafe(s)
  BY <1>1 DEF SessionSafe, AllTabs
<1> QED BY <1>1, <1>2, SessionMoves

LEMMA PrivateModeEnds ==
  ASSUME ProfileSafe, SwitchFromPrivate
  PROVE  StepIsGood
<1> DEFINE s == [session EXCEPT !.private = FALSE, !.active = FirstTab,
                                !.page[PrivateTab] = NewTabPage]
<1>1. SessionSafe(session) /\ SessionChanges(s)
  BY DEF ProfileSafe, SwitchFromPrivate
<1>2. FirstTab \in AllTabs /\ FirstTab # PrivateTab /\ NewTabPage \in Addresses
  BY PublicTabsAssumption DEF AllTabs, Addresses
<1>3. SessionSafe(s)
  BY <1>1, <1>2 DEF SessionSafe
<1> QED BY <1>1, <1>3, SessionMoves

\* A step that changes views only.
LEMMA ViewsMove ==
  ASSUME ProfileSafe, UNCHANGED <<session, data, store, effect, files, saves>>,
         ViewsSafe(views', session, data), bounds' \in Bounds, bounds'.runs = bounds.runs
  PROVE  StepIsGood
<1>1. /\ SessionSafe(session) /\ DataSafe(data) /\ FilesSafe(files, saves, data)
      /\ StoreSafe(store, data.bookmarks) /\ effect = Applied(data.settings)
  BY DEF ProfileSafe
<1>2. Stored({})
  BY <1>1, NothingStored DEF FilesSafe
<1> QED BY <1>1, <1>2, StepSaves

LEMMA SettingsShown ==
  ASSUME NEW v, IsViews(v), NEW d, NEW w, w = RefreshFromSettings(v, d)
  PROVE  /\ IsViews(w) /\ w.drawer = v.drawer /\ w.rows = v.rows /\ w.section = v.section
         /\ w.bar = v.bar
<1> DEFINE x == [search |-> d.settings.search, downloads |-> d.settings.downloads]
<1>1. w = [v EXCEPT !.typed = x]
  BY DEF RefreshFromSettings
<1> HIDE DEF x
<1> QED BY <1>1 DEF IsViews

LEMMA DrawerToggled ==
  ASSUME ProfileSafe, NEW which \in Drawers \ {"none"}, ToggleTransientPanel(which)
  PROVE  StepIsGood
<1>1. PICK next \in Drawers :
        Turn /\ views' = Shown(views, next)
        /\ UNCHANGED <<session, data, store, effect, files, saves>>
  BY DEF ToggleTransientPanel, Drawers
<1> DEFINE open == [views EXCEPT !.drawer = next]
<1>2. /\ SessionSafe(session) /\ DataSafe(data) /\ IsViews(views)
      /\ views.bar = ListBookmarks(data.bookmarks, CurrentWorkspaceId(session))
  BY DEF ProfileSafe, ViewsSafe
<1>3. IsViews(open) /\ open.drawer = next /\ open.bar = views.bar
  BY <1>2 DEF IsViews
<1>4. CASE next = "library"
  <2>1. views' = RebuildBody(open, session, data)
    BY <1>1, <1>4 DEF Shown
  <2> HIDE DEF open
  <2>2. IsViews(views') /\ views'.bar = views.bar /\ LibrarySafe(views', session, data)
    BY <1>2, <1>3, <2>1, BodyRebuilt
  <2>3. ViewsSafe(views', session, data)
    BY <1>2, <2>2 DEF ViewsSafe
  <2> QED BY <1>1, <2>3, TurnCounts, ViewsMove
<1>5. CASE next = "settings"
  <2>1. views' = RefreshFromSettings(open, data)
    BY <1>1, <1>5 DEF Shown
  <2> HIDE DEF open
  <2>2. IsViews(views') /\ views'.bar = views.bar /\ views'.drawer = next
    BY <1>3, <2>1, SettingsShown
  <2>3. ViewsSafe(views', session, data)
    BY <1>2, <1>5, <2>2 DEF ViewsSafe
  <2> QED BY <1>1, <2>3, TurnCounts, ViewsMove
<1>6. CASE next = "none"
  <2>1. views' = open
    BY <1>1, <1>6 DEF Shown
  <2> HIDE DEF open
  <2>2. ViewsSafe(views', session, data)
    BY <1>2, <1>3, <1>6, <2>1 DEF ViewsSafe
  <2> QED BY <1>1, <2>2, TurnCounts, ViewsMove
<1> QED BY <1>4, <1>5, <1>6 DEF Drawers

-----------------------------------------------------------------------------
\* Presses.

LEMMA ButtonPressed ==
  ASSUME ProfileSafe, PressLibrary \/ PressBar
  PROVE  StepIsGood
<1>1. PICK action : PressButton(action)
  BY DEF PressLibrary, PressBar
<1>2. Turn /\ UNCHANGED <<session, data, store, views, effect, files, saves>>
  BY <1>1 DEF PressButton
<1>3. ViewsSafe(views', session, data)
  BY <1>2 DEF ProfileSafe
<1> QED BY <1>2, <1>3, TurnCounts, ViewsMove

LEMMA NothingHappens ==
  ASSUME ProfileSafe, Nothing, UNCHANGED <<store, effect>>
  PROVE  StepIsGood
<1>1. UNCHANGED <<session, data, store, views, effect, files, saves, bounds>>
  BY DEF Nothing
<1>2. ViewsSafe(views', session, data) /\ bounds' \in Bounds /\ bounds'.runs = bounds.runs
  BY <1>1 DEF ProfileSafe
<1> QED BY <1>1, <1>2, ViewsMove

\* A change made by a press on the library.
LEMMA ManagersChange ==
  ASSUME ProfileSafe, ~session.private, NEW d, DataSafe(d), StoreSafe(store, d.bookmarks),
         NEW doc \in {"history", "bookmarks"}, Changed(d, doc), UNCHANGED <<store, effect>>,
         d.settings = data.settings,
         doc = "history" => d.bookmarks = data.bookmarks,
         doc = "bookmarks" => d.history = data.history
  PROVE  StepIsGood
<1>1. /\ data' = d /\ views' = RebuildBody(RebuildBar(views, session, d), session, d)
      /\ Save({doc}) /\ UNCHANGED <<session, bounds>>
  BY DEF Changed, NotifyDataChanged
<1>2. /\ SessionSafe(session) /\ IsViews(views) /\ bounds \in Bounds
      /\ effect = Applied(data.settings)
  BY DEF ProfileSafe, ViewsSafe
<1> DEFINE barred == RebuildBar(views, session, d)
<1>3. /\ IsViews(barred)
      /\ barred.bar = ListBookmarks(d.bookmarks, CurrentWorkspaceId(session))
  BY <1>2, BarRebuilt
<1>4. views' = RebuildBody(barred, session, d)
  BY <1>1
<1> HIDE DEF barred
<1>5. IsViews(views') /\ views'.bar = barred.bar /\ LibrarySafe(views', session, d)
  BY <1>2, <1>3, <1>4, BodyRebuilt
<1>6. ViewsSafe(views', session', data')
  BY <1>1, <1>3, <1>5 DEF ViewsSafe
<1>7. Stored({doc})
  BY <1>1, SaveStores DEF FilesSaved
<1> QED BY <1>1, <1>2, <1>6, <1>7, StepSaves

LEMMA HistoryChanges ==
  ASSUME DataSafe(data), NEW h \in [entries: Seq(Entries), next: Nat],
         NEW d, d = [data EXCEPT !.history = h]
  PROVE  /\ DataSafe(d) /\ d.bookmarks = data.bookmarks /\ d.settings = data.settings
         /\ d.history = h
<1>1. /\ d = [history |-> h, bookmarks |-> data.bookmarks, settings |-> data.settings]
  BY DEF DataSafe
<1> QED BY <1>1 DEF DataSafe

LEMMA BookmarksChange ==
  ASSUME DataSafe(data), NEW m \in [items: Seq(Bookmarks), next: Nat],
         IdsTellApart(m.items), \A i \in 1 .. Len(m.items) : m.items[i].id < m.next,
         NEW d, d = [data EXCEPT !.bookmarks = m]
  PROVE  /\ DataSafe(d) /\ d.history = data.history /\ d.settings = data.settings
         /\ d.bookmarks = m
<1>1. /\ d = [history |-> data.history, bookmarks |-> m, settings |-> data.settings]
  BY DEF DataSafe
<1> QED BY <1>1 DEF DataSafe

LEMMA BookmarksAre ==
  ASSUME ProfileSafe
  PROVE  /\ DataSafe(data) /\ data.bookmarks \in [items: Seq(Bookmarks), next: Nat]
         /\ IdsTellApart(data.bookmarks.items) /\ StoreSafe(store, data.bookmarks)
         /\ \A i \in 1 .. Len(data.bookmarks.items) :
              data.bookmarks.items[i].id < data.bookmarks.next
         /\ data.history \in [entries: Seq(Entries), next: Nat]
BY DEF ProfileSafe, DataSafe

LEMMA NotPrivate ==
  ASSUME ProfileSafe
  PROVE  IsPrivateContext(session) <=> session.private
BY DEF ProfileSafe, SessionSafe, IsPrivateContext

LEMMA RowRemoved ==
  ASSUME ProfileSafe, NEW action, RemoveRow(action), UNCHANGED <<store, effect>>
  PROVE  StepIsGood
<1>1. CASE action.kind = "RemoveHistory"
  <2> DEFINE h == RemoveEntry(data.history, action.id)
             d == [data EXCEPT !.history = h]
  <2>1. Nothing \/ (~IsPrivateContext(session) /\ Changed(d, "history"))
    BY <1>1 DEF RemoveRow
  <2>2. h \in [entries: Seq(Entries), next: Nat]
    BY BookmarksAre, EntryRemoved
  <2> HIDE DEF h
  <2>3. /\ DataSafe(d) /\ d.bookmarks = data.bookmarks /\ d.settings = data.settings
    BY <2>2, BookmarksAre, HistoryChanges
  <2> HIDE DEF d
  <2>4. CASE ~IsPrivateContext(session) /\ Changed(d, "history")
    BY <2>3, <2>4, NotPrivate, BookmarksAre, ManagersChange
  <2> QED BY <2>1, <2>4, NothingHappens
<1>2. CASE action.kind # "RemoveHistory"
  <2> DEFINE m == RemoveBookmark(data.bookmarks, action.id)
             d == [data EXCEPT !.bookmarks = m]
  <2>1. Nothing \/ (~IsPrivateContext(session) /\ Changed(d, "bookmarks"))
    BY <1>2 DEF RemoveRow
  <2>2. /\ m \in [items: Seq(Bookmarks), next: Nat] /\ IdsTellApart(m.items)
        /\ \A i \in 1 .. Len(m.items) : m.items[i].id < m.next
        /\ StoreSafe(store, m)
    <3> HIDE DEF m
    <3> QED BY BookmarksAre, BookmarkRemoved DEF m
  <2> HIDE DEF m
  <2>3. /\ DataSafe(d) /\ d.history = data.history /\ d.settings = data.settings
        /\ d.bookmarks = m
    BY <2>2, BookmarksAre, BookmarksChange
  <2> HIDE DEF d
  <2>4. CASE ~IsPrivateContext(session) /\ Changed(d, "bookmarks")
    BY <2>2, <2>3, <2>4, NotPrivate, ManagersChange
  <2> QED BY <2>1, <2>4, NothingHappens
<1> QED BY <1>1, <1>2

LEMMA HistoryCleared ==
  ASSUME ProfileSafe, ClearAll, UNCHANGED <<store, effect>>
  PROVE  StepIsGood
<1> DEFINE h == ClearHistory(data.history)
           d == [data EXCEPT !.history = h]
<1>1. Nothing \/ (~IsPrivateContext(session) /\ Changed(d, "history"))
  BY DEF ClearAll
<1>2. h \in [entries: Seq(Entries), next: Nat]
  <2>1. data.history \in [entries: Seq(Entries), next: Nat]
    BY BookmarksAre
  <2>2. h = [entries |-> <<>>, next |-> data.history.next]
    BY <2>1 DEF ClearHistory
  <2>3. <<>> \in Seq(Entries)
    OBVIOUS
  <2> HIDE DEF h
  <2> QED BY <2>1, <2>2, <2>3
<1> HIDE DEF h
<1>3. /\ DataSafe(d) /\ d.bookmarks = data.bookmarks /\ d.settings = data.settings
  BY <1>2, BookmarksAre, HistoryChanges
<1> HIDE DEF d
<1>4. CASE ~IsPrivateContext(session) /\ Changed(d, "history")
  BY <1>3, <1>4, NotPrivate, BookmarksAre, ManagersChange
<1> QED BY <1>1, <1>4, NothingHappens

LEMMA LibraryHides ==
  ASSUME NEW v, NEW s, NEW d, ViewsSafe(v, s, d)
  PROVE  ViewsSafe(LibraryHidden(v), s, d)
<1> DEFINE x == IF v.drawer = "library" THEN "none" ELSE v.drawer
           w == [v EXCEPT !.drawer = x]
<1>1. LibraryHidden(v) = w
  BY DEF LibraryHidden
<1>2. x # "library" /\ IsViews(v)
  BY DEF ViewsSafe
<1> HIDE DEF x
<1>3. IsViews(w) /\ w.drawer = x /\ w.bar = v.bar
  BY <1>2 DEF IsViews
<1> HIDE DEF w
<1> QED BY <1>1, <1>2, <1>3 DEF ViewsSafe

LEMMA PageOpened ==
  ASSUME ProfileSafe, NavigateTo \/ NavigateFromLibrary, UNCHANGED <<store, effect>>
  PROVE  StepIsGood
<1> DEFINE v == Observed(views, session, data)
<1>1. SessionSafe(session) /\ DataSafe(data) /\ IsViews(views) /\ bounds \in Bounds
  BY DEF ProfileSafe, ViewsSafe
<1>2. ViewsSafe(v, session, data) /\ ViewsSafe(LibraryHidden(v), session, data)
  <2>1. ViewsSafe(v, session, data)
    BY <1>1, ObservedAreSafe
  <2> HIDE DEF v
  <2> QED BY <2>1, LibraryHides
<1>3. /\ NotifyObservers(session, v) \/ NotifyObservers(session, LibraryHidden(v))
      /\ UNCHANGED bounds
  BY DEF NavigateTo, NavigateFromLibrary
<1> HIDE DEF v
<1>4. PICK w : ViewsSafe(w, session, data) /\ NotifyObservers(session, w)
  BY <1>2, <1>3
<1> QED BY <1>1, <1>3, <1>4, ObserversTold

LEMMA SectionShown ==
  ASSUME ProfileSafe, NEW section, ShowSection(section), UNCHANGED <<store, effect>>
  PROVE  StepIsGood
<1> DEFINE v == [views EXCEPT !.section = section]
<1>1. /\ views' = RebuildBody(v, session, data)
      /\ UNCHANGED <<session, data, files, saves, bounds>>
  BY DEF ShowSection
<1>2. /\ SessionSafe(session) /\ DataSafe(data) /\ IsViews(views) /\ bounds \in Bounds
      /\ views.bar = ListBookmarks(data.bookmarks, CurrentWorkspaceId(session))
  BY DEF ProfileSafe, ViewsSafe
<1>3. IsViews(v) /\ v.bar = views.bar
  BY <1>2 DEF IsViews
<1> HIDE DEF v
<1>4. IsViews(views') /\ views'.bar = views.bar /\ LibrarySafe(views', session, data)
  BY <1>1, <1>2, <1>3, BodyRebuilt
<1>5. ViewsSafe(views', session, data)
  BY <1>2, <1>4 DEF ViewsSafe
<1> QED BY <1>1, <1>2, <1>5, ViewsMove

LEMMA LibraryClosed ==
  ASSUME ProfileSafe, CloseLibrary, UNCHANGED <<store, effect>>
  PROVE  StepIsGood
<1>1. /\ views' = LibraryHidden(views) /\ UNCHANGED <<session, data, files, saves, bounds>>
  BY DEF CloseLibrary
<1>2. ViewsSafe(views', session, data) /\ bounds \in Bounds
  BY <1>1, LibraryHides DEF ProfileSafe
<1> QED BY <1>1, <1>2, ViewsMove

\* The page is looked up by the active tab of the moment, and a private one is refused.
LEMMA PageBookmarked ==
  ASSUME ProfileSafe, BookmarkCurrentPage, UNCHANGED <<store, effect>>
  PROVE  StepIsGood
<1> DEFINE t == session.active
           m == AddBookmark(data.bookmarks, session.page[t], CurrentWorkspaceId(session),
                            bounds.clock + 1)
           d == [data EXCEPT !.bookmarks = m]
<1>1. CASE t = PrivateTab
  <2>1. Nothing
    BY <1>1 DEF BookmarkCurrentPage
  <2> QED BY <2>1, NothingHappens
<1>2. CASE t # PrivateTab
  <2>1. /\ data' = d /\ views' = RebuildBar(views, session, d)
        /\ Save(IF d = data THEN {} ELSE {"bookmarks"})
        /\ bounds' = IF d = data THEN bounds ELSE [bounds EXCEPT !.clock = @ + 1]
        /\ UNCHANGED session
    BY <1>2 DEF BookmarkCurrentPage
  <2>2. /\ session.page[t] \in Addresses /\ CurrentWorkspaceId(session) \in Workspaces
        /\ bounds.clock + 1 \in Nat /\ bounds' \in Bounds /\ bounds'.runs = bounds.runs
    <3>1. SessionSafe(session) /\ bounds \in Bounds
      BY DEF ProfileSafe
    <3>2. session.page[t] \in Addresses
      BY <3>1 DEF SessionSafe
    <3>3. CurrentWorkspaceId(session) \in Workspaces
      BY <3>1, ActiveWorkspace
    <3>4. bounds.clock + 1 \in Nat
      BY <3>1 DEF Bounds
    <3> HIDE DEF d
    <3>5. bounds' \in Bounds /\ bounds'.runs = bounds.runs
      BY <2>1, <3>1 DEF Bounds
    <3> QED BY <3>2, <3>3, <3>4, <3>5
  <2>3. /\ m \in [items: Seq(Bookmarks), next: Nat] /\ IdsTellApart(m.items)
        /\ \A i \in 1 .. Len(m.items) : m.items[i].id < m.next
        /\ \A i \in DOMAIN data.bookmarks.items :
             \E j \in DOMAIN m.items : m.items[j] = data.bookmarks.items[i]
        /\ StoreSafe(store, m)
    <3> DEFINE url == session.page[t]
               ws == CurrentWorkspaceId(session)
               now == bounds.clock + 1
    <3>1. url \in Addresses /\ ws \in Workspaces /\ now \in Nat
      BY <2>2
    <3>2. m = AddBookmark(data.bookmarks, url, ws, now)
      OBVIOUS
    <3> HIDE DEF m, url, ws, now
    <3> QED BY <3>1, <3>2, BookmarksAre, BookmarkAdded
  <2> HIDE DEF m
  <2>4. /\ DataSafe(d) /\ d.history = data.history /\ d.settings = data.settings
        /\ d.bookmarks = m
    BY <2>3, BookmarksAre, BookmarksChange
  <2> HIDE DEF d
  <2>5. /\ SessionSafe(session) /\ IsViews(views) /\ effect = Applied(data.settings)
        /\ FilesSafe(files, saves, data)
        /\ views.drawer = "library" => LibrarySafe(views, session, data)
    BY DEF ProfileSafe, ViewsSafe
  <2>6. /\ IsViews(views') /\ views'.drawer = views.drawer /\ views'.rows = views.rows
        /\ views'.section = views.section
        /\ views'.bar = ListBookmarks(d.bookmarks, CurrentWorkspaceId(session))
    BY <2>1, <2>5, BarRebuilt
  <2>7. LibrarySafe(views, session, data) => LibrarySafe(views', session, d)
    BY <2>3, <2>4, <2>6 DEF LibrarySafe, InData
  <2>8. ViewsSafe(views', session', data')
    BY <2>1, <2>5, <2>6, <2>7 DEF ViewsSafe
  <2>9. ~session.private
    BY <1>2, <2>5 DEF SessionSafe
  <2>10. PICK fs \in {{}, {"bookmarks"}} : Save(fs) /\ (d # data => fs = {"bookmarks"})
    BY <2>1
  <2>11. Stored(fs)
    <3>1. fs \in SUBSET FilesSaved
      BY DEF FilesSaved
    <3> QED BY <2>10, <3>1, SaveStores
  <2>12. fs \in SUBSET {"history", "bookmarks", "settings"}
    OBVIOUS
  <2>13. "bookmarks" \notin fs => data'.bookmarks = data.bookmarks
    BY <2>1, <2>10
  <2>14. /\ "history" \notin fs => data'.history.entries = data.history.entries
         /\ "settings" \notin fs => data'.settings = data.settings
    BY <2>1, <2>4
  <2> QED
    BY <2>1, <2>2, <2>3, <2>4, <2>5, <2>8, <2>9, <2>11, <2>12, <2>13, <2>14, StepSaves
<1> QED BY <1>1, <1>2

LEMMA PressIsHandled ==
  ASSUME ProfileSafe, HandlePress
  PROVE  StepIsGood
<1>1. UNCHANGED <<store, effect>>
  BY DEF HandlePress
<1>2. PICK action :
        \/ RemoveRow(action) \/ ClearAll \/ NavigateFromLibrary \/ NavigateTo
        \/ ShowSection("history") \/ ShowSection("bookmarks") \/ CloseLibrary
        \/ BookmarkCurrentPage
  BY DEF HandlePress
<1> QED
  BY <1>1, <1>2, RowRemoved, HistoryCleared, PageOpened, SectionShown, LibraryClosed,
     PageBookmarked

-----------------------------------------------------------------------------
\* Settings, sync, and launches.

\* A setting is saved and passed on, and its panel is made anew.
LEMMA SettingsChanged ==
  ASSUME ProfileSafe, NEW x, SettingsChange(x), UNCHANGED <<session, store>>,
         bounds' \in Bounds, bounds'.runs = bounds.runs
  PROVE  StepIsGood
<1> DEFINE d == [data EXCEPT !.settings = x]
<1>1. /\ data' = d /\ views' = RefreshFromSettings(views, d) /\ effect' = Applied(d.settings)
      /\ Save({"settings"})
  BY DEF SettingsChange, NotifySettingsChanged
<1>2. /\ DataSafe(d) /\ d.history = data.history /\ d.bookmarks = data.bookmarks
  <2>1. d = [history |-> data.history, bookmarks |-> data.bookmarks, settings |-> x]
    BY DEF ProfileSafe, DataSafe
  <2> HIDE DEF d
  <2> QED BY <2>1 DEF ProfileSafe, DataSafe
<1> HIDE DEF d
<1>3. ViewsSafe(views', session', data')
  <2>1. IsViews(views)
    BY DEF ProfileSafe, ViewsSafe
  <2>2. /\ IsViews(views') /\ views'.drawer = views.drawer /\ views'.rows = views.rows
        /\ views'.section = views.section /\ views'.bar = views.bar
    BY <1>1, <2>1, SettingsShown
  <2>3. ViewsSafe(views, session, data)
    BY DEF ProfileSafe
  <2>4. ViewsSafe(views', session, data)
    BY <2>2, <2>3 DEF ViewsSafe, LibrarySafe
  <2> QED BY <1>1, <1>2, <2>4, ViewsStaySafe
<1>4. Stored({"settings"})
  BY <1>1, SaveStores DEF FilesSaved
<1>5. SessionSafe(session) /\ StoreSafe(store, data.bookmarks)
  BY DEF ProfileSafe
<1> QED BY <1>1, <1>2, <1>3, <1>4, <1>5, StepSaves

LEMMA SettingsPressed ==
  ASSUME ProfileSafe, PressSettings
  PROVE  StepIsGood
<1>1. Turn /\ UNCHANGED <<session, store>>
  BY DEF PressSettings
<1>2. PICK x : SettingsChange(x)
  BY DEF PressSettings
<1> QED BY <1>1, <1>2, TurnCounts, SettingsChanged

LEMMA TextTyped ==
  ASSUME ProfileSafe, NEW field \in {"search", "downloads"}, NEW text, Type(field, text)
  PROVE  StepIsGood
<1> DEFINE x == [views.typed EXCEPT ![field] = text]
<1>1. /\ Turn /\ views.drawer = "settings" /\ views' = [views EXCEPT !.typed = x]
      /\ UNCHANGED <<session, data, store, effect, files, saves>>
  BY DEF Type
<1> HIDE DEF x
<1>2. IsViews(views) /\ views.bar = ListBookmarks(data.bookmarks, CurrentWorkspaceId(session))
  BY DEF ProfileSafe, ViewsSafe
<1>3. IsViews(views') /\ views'.drawer = "settings" /\ views'.bar = views.bar
  BY <1>1, <1>2 DEF IsViews
<1>4. ViewsSafe(views', session, data)
  BY <1>2, <1>3 DEF ViewsSafe
<1> QED BY <1>1, <1>4, TurnCounts, ViewsMove

\* A push holds every bookmark of the moment.
LEMMA DataSynced ==
  ASSUME ProfileSafe, SyncLocalData
  PROVE  StepIsGood
<1>1. /\ Turn /\ ~session.private /\ store' = PushRecords(store, data.bookmarks.items)
      /\ Save({"sync"}) /\ UNCHANGED <<session, data, views, effect>>
  BY DEF SyncLocalData
<1>2. Stored({"sync"})
  BY <1>1, SaveStores DEF FilesSaved
<1> DEFINE items == data.bookmarks.items
<1>3. items \in Seq(Bookmarks) /\ DOMAIN items = 1 .. Len(items)
  BY BookmarksAre, LenProperties
<1>4. StoreSafe(store', data.bookmarks) /\ \A i \in 1 .. Len(items) : SyncRecord(items[i]) \in store'
  BY <1>1, <1>3, BookmarksAre, AllPushed
<1>5. files'["sync"] # files["sync"] => files'["sync"] = store'
  BY <1>2, Documents DEF Stored
<1>6. SyncHolds
  <2> SUFFICES ASSUME files'["sync"] # files["sync"], NEW i \in 1 .. Len(items)
               PROVE  \E rec \in files'["sync"] : rec.id = items[i].id /\ rec.url = items[i].url
    BY <1>3 DEF SyncHolds
  <2>1. SyncRecord(items[i]).id = items[i].id /\ SyncRecord(items[i]).url = items[i].url
    BY DEF SyncRecord
  <2> QED BY <1>4, <1>5, <2>1
<1>7. FilesSafe(files', saves', data')
  <2>1. FilesSafe(files, saves, data) /\ DataSafe(data)
    BY DEF ProfileSafe
  <2> QED BY <1>1, <1>2, <2>1, DiskStaysSafe DEF FilesSaved
<1>8. bounds' \in Bounds /\ bounds'.runs = bounds.runs
  BY <1>1, TurnCounts
<1>9. ProfileSafe'
  BY <1>1, <1>4, <1>7, <1>8 DEF ProfileSafe
<1>10. PrivateKept /\ RestartKept
  BY <1>1, <1>8 DEF PrivateKept, RestartKept
<1> QED BY <1>6, <1>9, <1>10 DEF StepIsGood

\* What a program starts with, given the data it loads.
LEMMA NewViewsAreSafe ==
  ASSUME NEW s, SessionSafe(s), NEW d, DataSafe(d)
  PROVE  ViewsSafe(NewViews(s, d), s, d)
<1> DEFINE v == [drawer |-> "none", section |-> "history", rows |-> <<>>, removable |-> TRUE,
                 bar |-> <<>>, typed |-> [search |-> Empty, downloads |-> Empty]]
           barred == RebuildBar(v, s, d)
           filled == RefreshFromSettings(barred, d)
           w == RebuildBody(filled, s, d)
<1>1. NewViews(s, d) = w
  BY DEF NewViews
<1>2. IsViews(v) /\ v.drawer = "none"
  BY DEF IsViews
<1> HIDE DEF v
<1>3. /\ IsViews(barred) /\ barred.drawer = "none"
      /\ barred.bar = ListBookmarks(d.bookmarks, CurrentWorkspaceId(s))
  BY <1>2, BarRebuilt
<1> HIDE DEF barred
<1>4. IsViews(filled) /\ filled.drawer = "none" /\ filled.bar = barred.bar
  BY <1>3, SettingsShown
<1> HIDE DEF filled
<1>5. IsViews(w) /\ w.drawer = "none" /\ w.bar = filled.bar
  BY <1>4, BodyRebuilt
<1> HIDE DEF w
<1> QED BY <1>1, <1>3, <1>4, <1>5 DEF ViewsSafe

LEMMA NewSessionIsSafe ==
  ASSUME NEW t \in PublicTabs
  PROVE  SessionSafe(NewSession(t))
<1>1. t \in AllTabs /\ t # PrivateTab
  BY PublicTabsAssumption DEF AllTabs
<1>2. NewTabPage \in Addresses
  BY DEF Addresses
<1> QED BY <1>1, <1>2 DEF NewSession, SessionSafe

LEMMA LoadedIsSafe ==
  ASSUME NEW fs, fs["history"] \in Seq(Entries), fs["bookmarks"] \in Seq(Bookmarks),
         IdsTellApart(fs["bookmarks"])
  PROVE  /\ DataSafe(Loaded(fs)) /\ Loaded(fs).history.entries = fs["history"]
         /\ Loaded(fs).bookmarks.items = fs["bookmarks"] /\ Loaded(fs).settings = fs["settings"]
<1> DEFINE h == LoadHistory(fs["history"])
           m == LoadBookmarks(fs["bookmarks"])
           x == fs["settings"]
           d == Loaded(fs)
<1>1. d = [history |-> h, bookmarks |-> m, settings |-> x]
  BY DEF Loaded
<1>2. h \in [entries: Seq(Entries), next: Nat] /\ h.entries = fs["history"]
  BY HistoryLoaded DEF LoadHistory
<1>3. /\ m \in [items: Seq(Bookmarks), next: Nat] /\ m.items = fs["bookmarks"]
      /\ \A i \in 1 .. Len(m.items) : m.items[i].id < m.next
  BY BookmarksLoaded
<1> HIDE DEF h, m, x, d
<1>4. d.history = h /\ d.bookmarks = m /\ d.settings = x
  BY <1>1
<1>5. DataSafe(d)
  BY <1>1, <1>2, <1>3, <1>4 DEF DataSafe
<1> QED BY <1>2, <1>3, <1>4, <1>5 DEF d, x

LEMMA ProfileStarts == ProfileInit => ProfileSafe
<1> SUFFICES ASSUME ProfileInit PROVE ProfileSafe
  OBVIOUS
<1>1. /\ files["history"] = <<>> /\ files["bookmarks"] = <<>>
      /\ files = [f \in FilesSaved |-> files[f]]
  BY DEF ProfileInit, FilesSaved
<1>2. data = Loaded(files) /\ session = NewSession(FirstTab) /\ FirstTab \in PublicTabs
  BY PublicTabsAssumption DEF ProfileInit
<1>3. /\ DataSafe(data) /\ data.history.entries = files["history"]
      /\ data.bookmarks.items = files["bookmarks"] /\ data.settings = files["settings"]
  <2>1. files["history"] \in Seq(Entries) /\ files["bookmarks"] \in Seq(Bookmarks)
    BY <1>1
  <2>2. IdsTellApart(files["bookmarks"])
    BY <1>1 DEF IdsTellApart
  <2> QED BY <1>2, <2>1, <2>2, LoadedIsSafe
<1>4. SessionSafe(session)
  BY <1>2, NewSessionIsSafe
<1>5. ViewsSafe(views, session, data)
  BY <1>3, <1>4, NewViewsAreSafe DEF ProfileInit
<1>6. FilesSafe(files, saves, data)
  <2>1. saves = [failed |-> saves.failed, left |-> saves.left]
    BY DEF ProfileInit
  <2>2. files["history"] \in Seq(Entries) /\ files["bookmarks"] \in Seq(Bookmarks)
    BY <1>1
  <2>3. IdsTellApart(files["bookmarks"])
    BY <1>1 DEF IdsTellApart
  <2> QED BY <1>1, <1>3, <2>1, <2>2, <2>3 DEF FilesSafe
<1>7. /\ StoreSafe(store, data.bookmarks) /\ effect = Applied(data.settings) /\ bounds \in Bounds
  BY DEF ProfileInit, StoreSafe, Bounds
<1> QED BY <1>3, <1>4, <1>5, <1>6, <1>7 DEF ProfileSafe

\* A quit or a crash, and the launch after it.
LEMMA ProfileRestarts ==
  ASSUME ProfileSafe, NEW clean \in BOOLEAN, Relaunch(clean)
  PROVE  StepIsGood
<1>1. /\ files' = FilesLeft(clean) /\ data' = Loaded(files')
      /\ session' = NewSession(IF session.private THEN FirstTab ELSE session.active)
      /\ store' = {} /\ views' = NewViews(session', data') /\ effect' = Applied(data'.settings)
      /\ saves' = [saves EXCEPT !.failed = {}] /\ bounds' = [bounds EXCEPT !.runs = @ + 1]
  BY DEF Relaunch
<1>2. /\ SessionSafe(session) /\ DataSafe(data) /\ FilesSafe(files, saves, data)
      /\ bounds \in Bounds
  BY DEF ProfileSafe
<1>3. /\ files' = [f \in FilesSaved |-> files'[f]]
      /\ files'["history"] \in {files["history"], data.history.entries}
      /\ files'["bookmarks"] \in {files["bookmarks"], data.bookmarks.items}
      /\ files'["settings"] = files["settings"] /\ files'["sync"] = files["sync"]
  <2>1. CASE clean /\ ~session.private
    <3> DEFINE h == data.history.entries
               m == data.bookmarks.items
    <3>1. files' = [files EXCEPT !["history"] = h, !["bookmarks"] = m]
      BY <1>1, <2>1 DEF FilesLeft
    <3> HIDE DEF h, m
    <3>2. /\ files' = [f \in FilesSaved |-> files'[f]]
          /\ files'["history"] = h /\ files'["bookmarks"] = m
          /\ files'["settings"] = files["settings"] /\ files'["sync"] = files["sync"]
      BY <1>2, <3>1 DEF FilesSafe, FilesSaved
    <3> QED BY <3>2 DEF h, m
  <2>2. CASE ~(clean /\ ~session.private)
    <3>1. files' = files
      BY <1>1, <2>2 DEF FilesLeft
    <3> QED BY <1>2, <3>1 DEF FilesSafe
  <2> QED BY <2>1, <2>2
<1>4. /\ files'["history"] \in Seq(Entries) /\ files'["bookmarks"] \in Seq(Bookmarks)
      /\ IdsTellApart(files'["bookmarks"])
  BY <1>2, <1>3 DEF FilesSafe, DataSafe
<1>5. /\ DataSafe(data') /\ data'.history.entries = files'["history"]
      /\ data'.bookmarks.items = files'["bookmarks"] /\ data'.settings = files'["settings"]
  <2> DEFINE fs == files'
  <2>1. /\ fs["history"] \in Seq(Entries) /\ fs["bookmarks"] \in Seq(Bookmarks)
        /\ IdsTellApart(fs["bookmarks"]) /\ data' = Loaded(fs)
    BY <1>1, <1>4
  <2> HIDE DEF fs
  <2>2. /\ DataSafe(data') /\ data'.history.entries = fs["history"]
        /\ data'.bookmarks.items = fs["bookmarks"] /\ data'.settings = fs["settings"]
    BY <2>1, LoadedIsSafe
  <2> QED BY <2>2 DEF fs
<1>6. PICK t \in PublicTabs : session' = NewSession(t)
  BY <1>1, <1>2, PublicTabsAssumption DEF SessionSafe, AllTabs
<1>7. SessionSafe(session')
  BY <1>6, NewSessionIsSafe
<1>8. ViewsSafe(views', session', data')
  BY <1>1, <1>5, <1>7, NewViewsAreSafe
<1>9. /\ saves' = [failed |-> {}, left |-> saves.left] /\ saves'.failed = {}
  BY <1>1, <1>2 DEF FilesSafe
<1>10. FilesSafe(files', saves', data')
  BY <1>3, <1>4, <1>5, <1>9 DEF FilesSafe
<1>11. bounds' \in Bounds
  BY <1>1, <1>2 DEF Bounds
<1>12. StoreSafe(store', data'.bookmarks)
  BY <1>1 DEF StoreSafe
<1>13. ProfileSafe'
  BY <1>1, <1>5, <1>7, <1>8, <1>10, <1>11, <1>12 DEF ProfileSafe
<1>14. ~session'.private
  BY <1>6 DEF NewSession
<1>15. RestartKept
  BY <1>2, <1>3, <1>5 DEF RestartKept, FilesSafe
<1>16. PrivateKept /\ SyncHolds
  BY <1>3, <1>14 DEF PrivateKept, SyncHolds
<1> QED BY <1>13, <1>15, <1>16 DEF StepIsGood

LEMMA ProfileStep == ProfileSafe /\ ProfileNext => StepIsGood
<1> SUFFICES ASSUME ProfileSafe, ProfileNext PROVE StepIsGood
  OBVIOUS
<1>1. CASE \E t \in PublicTabs : SelectTab(t)
  BY <1>1, TabSelected
<1>2. CASE \E t \in AllTabs, url \in Urls : CommitPage(t, url)
  BY <1>2, PageCommitted
<1>3. CASE SwitchToPrivate
  BY <1>3, PrivateModeBegins
<1>4. CASE SwitchFromPrivate
  BY <1>4, PrivateModeEnds
<1>5. CASE \E which \in Drawers \ {"none"} : ToggleTransientPanel(which)
  BY <1>5, DrawerToggled
<1>6. CASE PressLibrary \/ PressBar
  BY <1>6, ButtonPressed
<1>7. CASE HandlePress
  BY <1>7, PressIsHandled
<1>8. CASE \/ \E text \in Searches \cup {Empty} : Type("search", text)
           \/ \E text \in Directories \cup {Empty} : Type("downloads", text)
  BY <1>8, TextTyped
<1>9. CASE PressSettings
  BY <1>9, SettingsPressed
<1>10. CASE SyncLocalData
  BY <1>10, DataSynced
<1>11. CASE \E clean \in BOOLEAN : Relaunch(clean)
  BY <1>11, ProfileRestarts
<1> QED
  BY <1>1, <1>2, <1>3, <1>4, <1>5, <1>6, <1>7, <1>8, <1>9, <1>10, <1>11 DEF ProfileNext

LEMMA ProfileStaysSafe == ProfileSpec => []ProfileSafe
<1>1. ProfileSafe /\ UNCHANGED profileVars => ProfileSafe'
  <2> SUFFICES ASSUME ProfileSafe, UNCHANGED profileVars PROVE ProfileSafe'
    OBVIOUS
  <2>1. UNCHANGED <<session, data, store, views, effect, files, saves, bounds>>
    BY DEF profileVars
  <2> QED BY <2>1 DEF ProfileSafe
<1>2. ProfileSafe /\ [ProfileNext]_profileVars => ProfileSafe'
  BY <1>1, ProfileStep DEF StepIsGood
<1> QED BY <1>2, ProfileStarts, PTL DEF ProfileSpec

\* ViewsAreCurrent: however long presses wait and whatever changes meanwhile, the bar lists
\* the bookmarks of the active tab's workspace, an open library lists nothing that is gone
\* and no history in private mode, and chrome, file broker and new-tab pages go by the
\* settings.
THEOREM ViewsStayCurrent == ProfileSpec => []ViewsAreCurrent
<1>1. ProfileSafe => ViewsAreCurrent
  BY DEF ProfileSafe, ViewsSafe, LibrarySafe, InData, ViewsAreCurrent, ViewsAreSound,
         SettingsInEffect
<1> QED BY <1>1, ProfileStaysSafe, PTL

\* PrivateModeKeepsData: no press made before private mode, and none made in it, changes
\* history, bookmarks or a file of them.
THEOREM PrivateModeTouchesNothing == ProfileSpec => PrivateModeKeepsData
<1> DEFINE Body ==
      session.private /\ session'.private =>
        /\ data'.history = data.history /\ data'.bookmarks = data.bookmarks
        /\ \A f \in {"history", "bookmarks", "sync"} : files'[f] = files[f]
<1>1. ProfileSafe /\ [ProfileNext]_profileVars => [Body]_profileVars
  BY ProfileStep DEF StepIsGood, PrivateKept
<1>2. ProfileSpec => [][Body]_profileVars
  BY <1>1, ProfileStaysSafe, PTL DEF ProfileSpec
<1> QED BY <1>2 DEF PrivateModeKeepsData

\* RestartKeepsData: after a quit as after a crash, a launch finds history, bookmarks and
\* settings as they were, each unless the last save of its file failed.
THEOREM LaunchesFindTheData == ProfileSpec => RestartKeepsData
<1> DEFINE Body ==
      bounds'.runs # bounds.runs =>
        /\ "history" \notin saves.failed => data'.history.entries = data.history.entries
        /\ "bookmarks" \notin saves.failed => data'.bookmarks.items = data.bookmarks.items
        /\ "settings" \notin saves.failed => data'.settings = data.settings
<1>1. ProfileSafe /\ [ProfileNext]_profileVars => [Body]_profileVars
  BY ProfileStep DEF StepIsGood, RestartKept
<1>2. ProfileSpec => [][Body]_profileVars
  BY <1>1, ProfileStaysSafe, PTL DEF ProfileSpec
<1> QED BY <1>2 DEF RestartKeepsData

\* SyncHoldsBookmarks: a store that is written holds each bookmark under an id of its own,
\* although ids are numbered anew at every launch.
THEOREM SyncHoldsThemAll == ProfileSpec => SyncHoldsBookmarks
<1> DEFINE Body ==
      files'["sync"] # files["sync"] =>
        \A i \in DOMAIN data.bookmarks.items :
          \E rec \in files'["sync"] :
            rec.id = data.bookmarks.items[i].id /\ rec.url = data.bookmarks.items[i].url
<1>1. ProfileSafe /\ [ProfileNext]_profileVars => [Body]_profileVars
  BY ProfileStep DEF StepIsGood, SyncHolds
<1>2. ProfileSpec => [][Body]_profileVars
  BY <1>1, ProfileStaysSafe, PTL DEF ProfileSpec
<1> QED BY <1>2 DEF SyncHoldsBookmarks
=============================================================================
