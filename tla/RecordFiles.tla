---------------------------- MODULE RecordFiles ----------------------------
(***************************************************************************)
(* The file-per-key JSON store of services/artifact_store.py as its        *)
(* callers see it.  A store is a function from keys to the contents of     *)
(* the key's file, which is a record or one of three marks:                *)
(*                                                                         *)
(*   Absent    there is no file                                            *)
(*   Partial   open(path, "w") has truncated it and the record is not      *)
(*             written out yet                                             *)
(*   Garbled   two writers whose opens overlapped have both written, and   *)
(*             the tail of the longer record follows the shorter one       *)
(*                                                                         *)
(* json.load raises on Partial and on Garbled alike.                       *)
(***************************************************************************)
CONSTANTS Absent, Partial, Garbled

Marks == {Absent, Partial, Garbled}

(* The marks are told apart from each other.  A module that stores records *)
(* assumes besides that no record is a mark.                               *)
ASSUME MarksDistinct ==
  Absent # Partial /\ Absent # Garbled /\ Partial # Garbled

(* ArtifactStore.load returns the record.                                  *)
Readable(contents) == contents \notin Marks

(* ArtifactStore.load raises JSONDecodeError; list_all skips the file.     *)
Undecodable(contents) == contents \in {Partial, Garbled}

(* What ArtifactStore.save may leave when it writes out a record over the  *)
(* contents another writer produced since this one opened the file: its    *)
(* own record, or a garbled file when the other record was the longer.     *)
(* Over a file unlinked in the meantime the record is lost.                *)
Overwritten(contents, record) ==
  IF contents = Absent THEN {Absent}
  ELSE IF contents = Partial THEN {record}
  ELSE {record, Garbled}
=============================================================================
