---------------------------- MODULE TransferOps ----------------------------
(***************************************************************************)
(* TransferBroker as operators on a record: items maps the id of every     *)
(* transfer it knows to what it keeps of it, controls is the set of ids    *)
(* whose pause, resume and cancel functions it holds.  Times, speed and    *)
(* texts are left out.                                                     *)
(*                                                                         *)
(* FileBroker as operators on a set of taken names: a path is a directory, *)
(* a name and the number a collision gave it.                              *)
(***************************************************************************)
EXTENDS Naturals, FiniteSets

CONSTANTS
  Ids,        \* download ids
  Dirs,       \* directories
  Names,      \* sanitized file names
  MaxCopy,    \* the last number ResolveCollision tries: 9999 in the code
  SubDirs,    \* SubDirs[d]: the directories whose paths begin with those of d
  NoPath      \* an empty path

ASSUME MaxCopyAssumption == MaxCopy \in Nat
ASSUME SubDirsAssumption == \A d \in Dirs : d \in SubDirs[d] /\ SubDirs[d] \subseteq Dirs

Paths == [dir : Dirs, name : Names, copy : 0 .. MaxCopy]

Terminal == {"Completed", "Failed", "Cancelled"}
TransferState == {"InProgress", "Paused"} \cup Terminal

EmptyBroker == [items |-> <<>>, controls |-> {}]

Known(b, id) == id \in DOMAIN b.items
IsActive(b, id) == Known(b, id) /\ b.items[id].state \notin Terminal

SetState(b, id, state) == [b EXCEPT !.items[id].state = state]

RegisterTransfer(b, id, path, got) ==
  IF Known(b, id) THEN b
  ELSE [b EXCEPT !.items = [i \in DOMAIN @ \cup {id} |->
          IF i = id THEN [state |-> "InProgress", path |-> path, got |-> got] ELSE @[i]]]

\* Empty fields do not overwrite what is known.
UpdateMetadata(b, id, path) ==
  IF IsActive(b, id) /\ path # NoPath THEN [b EXCEPT !.items[id].path = path] ELSE b

\* Mutant: progress puts a paused transfer back to work.
UpdateProgressResuming(b, id, got) ==
  IF IsActive(b, id)
  THEN [b EXCEPT !.items[id].got = got, !.items[id].state = "InProgress"]
  ELSE b

\* Progress does not end a pause.
UpdateProgress(b, id, got) ==
  IF IsActive(b, id) THEN [b EXCEPT !.items[id].got = got] ELSE b

SetControl(b, id) ==
  IF Known(b, id) THEN [b EXCEPT !.controls = @ \cup {id}] ELSE b

ClearControl(b, id) == [b EXCEPT !.controls = @ \ {id}]

Finish(b, id, state) ==
  IF IsActive(b, id) THEN ClearControl(SetState(b, id, state), id) ELSE b

CompleteTransfer(b, id, size) ==
  IF IsActive(b, id)
  THEN [Finish(b, id, "Completed") EXCEPT !.items[id].got = IF size > 0 THEN size ELSE @]
  ELSE b

FailTransfer(b, id) == Finish(b, id, "Failed")
CancelTransfer(b, id) == Finish(b, id, "Cancelled")

CanPause(b, id) == Known(b, id) /\ b.items[id].state = "InProgress"
CanResume(b, id) == Known(b, id) /\ b.items[id].state = "Paused"

PauseTransfer(b, id) == IF CanPause(b, id) THEN SetState(b, id, "Paused") ELSE b
ResumeTransfer(b, id) == IF CanResume(b, id) THEN SetState(b, id, "InProgress") ELSE b

\* Mutant: the control is looked for after the state change has dropped it.
ControlCallLate(b, id, action) ==
  IF action # "cancel" /\ id \in b.controls THEN <<action>> ELSE <<>>

\* The function of the control a call takes out under the lock and calls after it.
ControlCall(b, id, action) ==
  IF id \in b.controls /\
     CASE action = "cancel" -> IsActive(b, id)
       [] action = "pause"  -> CanPause(b, id)
       [] action = "resume" -> CanResume(b, id)
  THEN <<action>> ELSE <<>>

-----------------------------------------------------------------------------
\* FileBroker.

IsPathContained(allowed, path) == path.dir \in SubDirs[allowed]

\* Mutant: a taken name is numbered once, and not looked for again.
ResolveCollisionOnce(taken, dir, name) ==
  LET path(i) == [dir |-> dir, name |-> name, copy |-> i]
  IN  path(IF path(0) \in taken THEN 1 ELSE 0)

\* The first free number, and the plain name when there is none.
ResolveCollision(taken, dir, name) ==
  LET path(i) == [dir |-> dir, name |-> name, copy |-> i]
      free == {i \in 0 .. MaxCopy : path(i) \notin taken}
  IN  path(IF free = {} THEN 0 ELSE CHOOSE i \in free : \A j \in free : i <= j)

=============================================================================
