----------------------------- MODULE BackupState -----------------------------
(***************************************************************************)
(* What the canonical document repository and the BCAES registry share:    *)
(* the snapshot an administrator holds and the POST /admin/restore that is *)
(* in progress (services/backup_service.py, main.py).  A restore writes    *)
(* the stores of both components under their feet, and then has each one   *)
(* reload what it keeps in memory.                                         *)
(***************************************************************************)
EXTENDS Naturals

CONSTANTS
  None,
  MaxRequests \* bound: requests and deaths of the process

VARIABLES
  snapshot,   \* what the last export returned, or None
  restore,    \* the restore in progress
  requests    \* how many requests have begun

backupVars == <<snapshot, restore, requests>>

(* One more request, or death, within the bound.                           *)
OneMore == requests < MaxRequests /\ requests' = requests + 1

NoRestore == [at |-> "idle"]

(* A restore has begun to write and has not reloaded both memories yet.    *)
Restoring == restore # NoRestore
=============================================================================
