------------------------- MODULE CrashSafeRegister -------------------------
(***************************************************************************)
(* What a caller of AtomicWriteFile and ReadFileWithBackupRecovery relies  *)
(* on: a register whose writes take effect at one instant or not at all,   *)
(* whatever fails and wherever the program stops.                          *)
(***************************************************************************)
CONSTANTS
  Contents,  \* documents that pass the reader's validator
  Absent     \* no document: nothing was ever written, or it is lost

VARIABLES
  value,    \* what a reader gets
  pending,  \* the document being written, Absent between writes
  result    \* of the last write: "ok", "failed", or "none" if it never returned

rvars == <<value, pending, result>>

RInit == value = Absent /\ pending = Absent /\ result = "none"

RBegin(v) == pending = Absent /\ pending' = v /\ result' = "none" /\ UNCHANGED value

RReject == pending = Absent /\ result' = "failed" /\ UNCHANGED <<value, pending>>

RSucceed ==
  /\ pending # Absent
  /\ value' = pending /\ pending' = Absent /\ result' = "ok"

RFail == pending # Absent /\ pending' = Absent /\ result' = "failed" /\ UNCHANGED value

RCrash == pending # Absent /\ pending' = Absent /\ result' = "none" /\ UNCHANGED value

RNext == (\E v \in Contents : RBegin(v)) \/ RReject \/ RSucceed \/ RFail \/ RCrash

RSpec == RInit /\ [][RNext]_rvars
=============================================================================
