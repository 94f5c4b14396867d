----------------------------- MODULE AtomicFile -----------------------------
(***************************************************************************)
(* AtomicWriteFile and ReadFileWithBackupRecovery                          *)
(* (src/src/core/storage/atomic_file_store.cpp, the POSIX branch), one     *)
(* action for every file operation that the program can stop between.      *)
(* Every caller asks for a backup.  Renaming is atomic; writing and        *)
(* copying leave a torn file when they are cut short.                      *)
(***************************************************************************)
CONSTANTS
  Contents,       \* documents that pass the reader's validator
  Missing,        \* no such file
  Torn            \* a file cut short, which no validator accepts

ASSUME FilesAssumption == Missing \notin Contents /\ Torn \notin Contents /\ Missing # Torn

VARIABLES
  target, tmp, bak,  \* the three files
  step,              \* where the write under way is, "idle" between writes
  content,           \* what it writes
  result,            \* AtomicWriteResult::success of the last write that returned
  faults             \* what may fail on this file system: "rename", making the "backup"

fileVars == <<target, tmp, bak, step, content, result, faults>>

Files == Contents \cup {Missing, Torn}
Steps == {"idle", "writing", "written", "backing", "replacing", "copying"}

TypeOK ==
  /\ target \in Files /\ tmp \in Files /\ bak \in Files
  /\ step \in Steps
  /\ content \in Contents \cup {Missing}
  /\ result \in {"none", "ok", "failed"}
  /\ faults \in SUBSET {"rename", "backup"}

FileInit ==
  /\ target = Missing /\ tmp = Missing /\ bak = Missing
  /\ step = "idle" /\ content = Missing /\ result = "none"
  /\ faults \in SUBSET {"rename", "backup"}

RenameWorks == "rename" \notin faults
BackupWorks == "backup" \notin faults

Return(outcome) == step' = "idle" /\ content' = Missing /\ result' = outcome

\* The directory or the temporary file cannot be opened.
OpenFails ==
  /\ step = "idle" /\ Return("failed")
  /\ UNCHANGED <<target, tmp, bak, faults>>

OpenTmp(v) ==
  /\ step = "idle" /\ step' = "writing"
  /\ content' = v /\ result' = "none" /\ tmp' = Torn
  /\ UNCHANGED <<target, bak, faults>>

WriteFails ==
  /\ step = "writing" /\ tmp' = Missing /\ Return("failed")
  /\ UNCHANGED <<target, bak, faults>>

\* Mutant: the previous document is not copied aside.
SkipBackupAlways ==
  /\ step = "written" /\ step' = "replacing"
  /\ UNCHANGED <<target, tmp, bak, content, result, faults>>

CloseTmp ==
  /\ step = "writing" /\ step' = "written"
  /\ tmp' = content
  /\ UNCHANGED <<target, bak, content, result, faults>>

\* There is nothing to back up, or the backup cannot be opened, which is ignored.
SkipBackup ==
  /\ step = "written" /\ step' = "replacing"
  /\ target = Missing \/ ~BackupWorks
  /\ UNCHANGED <<target, tmp, bak, content, result, faults>>

StartBackup ==
  /\ step = "written" /\ target # Missing
  /\ step' = "backing" /\ bak' = Torn
  /\ UNCHANGED <<target, tmp, content, result, faults>>

FinishBackup ==
  /\ step = "backing" /\ step' = "replacing"
  /\ bak' = target \/ (~BackupWorks /\ bak' = bak)
  /\ UNCHANGED <<target, tmp, content, result, faults>>

\* Mutant: the replacement is a copy.
ReplaceByCopy ==
  /\ step = "replacing"
  /\ target' = Torn /\ step' = "copying"
  /\ UNCHANGED <<tmp, bak, content, result, faults>>

Rename ==
  /\ step = "replacing"
  /\ target' = tmp /\ tmp' = Missing /\ Return("ok")
  /\ UNCHANGED <<bak, faults>>

\* The fallback opens its source, and most often cuts the target short at once.
RenameFails ==
  /\ step = "replacing" /\ ~RenameWorks
  /\ target' \in {target, Torn} /\ step' = "copying"
  /\ UNCHANGED <<tmp, bak, content, result, faults>>

\* The copy ends well or badly.  What the caller is told is the error code of
\* the removal of the temporary file, which overwrote the one of the copy.
FinishCopy ==
  /\ step = "copying" /\ target' \in {target, tmp}
  /\ \/ tmp' = Missing /\ Return("ok")
     \/ tmp' = tmp /\ Return("failed")
  /\ UNCHANGED <<bak, faults>>

Crash ==
  /\ step # "idle" /\ Return("none")
  /\ UNCHANGED <<target, tmp, bak, faults>>

FileNext ==
  \/ OpenFails
  \/ \E v \in Contents : OpenTmp(v)
  \/ WriteFails
  \/ CloseTmp
  \/ SkipBackup
  \/ StartBackup
  \/ FinishBackup
  \/ Rename
  \/ RenameFails
  \/ FinishCopy
  \/ Crash

FileSpec == FileInit /\ [][FileNext]_fileVars

-----------------------------------------------------------------------------
\* ReadFileWithBackupRecovery.
ReadBack ==
  IF target \in Contents THEN target
  ELSE IF bak \in Contents THEN bak ELSE Missing

\* While rename works, the primary is never cut short, what is about to replace
\* it is whole, and a backup never exists before a primary; when the backup is
\* made it holds the primary.
WholeFiles ==
  /\ TypeOK
  /\ (step = "idle") = (content = Missing)
  /\ step \in {"written", "backing", "replacing", "copying"} => tmp = content
  /\ target = Missing => bak = Missing
  /\ step = "backing" => target # Missing
  /\ RenameWorks => target # Torn /\ step # "copying"
  /\ step = "replacing" /\ BackupWorks => bak = target

\* While the backup can be made, a step taken while the primary is sound leaves a
\* reader with that document or the one being written, even when rename fails and
\* the copy that replaces it is cut short.
SoundPrimaryIsKept ==
  [][BackupWorks /\ target \in Contents => ReadBack' = target \/ ReadBack' = content]_fileVars

\* While rename works, the file is to its callers a crash-safe register.  The
\* comment of AtomicWriteFile promises that it replaces the target "atomically".
Promised == INSTANCE CrashSafeRegister WITH
  Absent <- Missing, value <- ReadBack, pending <- content

ImplementsRegister ==
  Promised!RInit /\ [][RenameWorks => Promised!RNext]_(Promised!rvars)
=============================================================================
