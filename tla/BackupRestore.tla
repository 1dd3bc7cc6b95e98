---------------------------- MODULE BackupRestore ----------------------------
(***************************************************************************)
(* Snapshots (services/backup_service.py) of the BCAES registry and the    *)
(* canonical document repository, composed with both.  An administrator    *)
(* exports the two stores, and posts what was exported back to             *)
(* /admin/restore, which saves record after record, and at the end has     *)
(* both components reload what they keep in memory (main.py).  A save that *)
(* raises, or a record without a key (BackupError), ends it before that.   *)
(* The process may die at any step and is started again over the stores.   *)
(***************************************************************************)
EXTENDS CanonicalRepository, BcaesRegistry

CONSTANT Mixed  \* bound: whether one behaviour makes documents and objects

VARIABLES
  export,        \* the records of the registry an export has read, or None
  failedRestore  \* history variable: a restore ended early since the process
                 \*   started

restoreVars == <<backupVars, docVars, objVars, export, failedRestore>>

StoresInit ==
  /\ snapshot = None /\ restore = NoRestore /\ requests = 0
  /\ CanonInit /\ ObjInit
  /\ export = None /\ failedRestore = FALSE

-----------------------------------------------------------------------------
(* export_snapshot: the registry first, then the documents.  There is one  *)
(* administrator, who waits for the answer.                                *)
Export ==
  /\ ~Restoring /\ export = None /\ OneMore
  /\ export' = objFile
  /\ UNCHANGED <<snapshot, restore, docVars, objVars, failedRestore>>

ExportDocuments ==
  /\ ~Restoring /\ export # None
  /\ snapshot' = [objects |-> export, docs |-> docFile]
  /\ export' = None
  /\ UNCHANGED <<requests, restore, docVars, objVars, failedRestore>>

KeysToRestore(records) == {k \in DOMAIN records : records[k] # None}

(* Requests in progress overlap with the restore from here on.             *)
BeginRestore ==
  /\ ~Restoring /\ export = None /\ snapshot # None /\ OneMore
  /\ restore' = [at |-> "objects", todo |-> KeysToRestore(snapshot.objects)]
  /\ docOverlaps' = docOverlaps \cup DocsInProgress
  /\ objOverlaps' = objOverlaps \cup ObjsInProgress
  /\ UNCHANGED <<snapshot, docs, chains, index, docFile, docReq, madeDocs, docTroubled>>
  /\ UNCHANGED <<objects, objFile, convergence, objReq, madeObjs, objTroubled, deleted>>
  /\ UNCHANGED <<export, failedRestore>>

(* The records of the registry, whatever has been deleted since.           *)
RestoreObject(o) ==
  /\ restore.at = "objects" /\ o \in restore.todo
  /\ objFile' = [objFile EXCEPT ![o] = snapshot.objects[o]]
  /\ restore' = [restore EXCEPT !.todo = @ \ {o}]
  /\ deleted' = deleted \ {o}
  /\ UNCHANGED <<requests, snapshot, docVars, objects, convergence, objReq, madeObjs, objOverlaps>>
  /\ UNCHANGED <<objTroubled, export, failedRestore>>

NextStore ==
  /\ restore.at = "objects" /\ restore.todo = {}
  /\ restore' = [at |-> "documents", todo |-> KeysToRestore(snapshot.docs)]
  /\ UNCHANGED <<requests, snapshot, docVars, objVars, export, failedRestore>>

RestoreDocument(d) ==
  /\ restore.at = "documents" /\ d \in restore.todo
  /\ docFile' = [docFile EXCEPT ![d] = snapshot.docs[d]]
  /\ restore' = [restore EXCEPT !.todo = @ \ {d}]
  /\ UNCHANGED <<requests, snapshot, docs, chains, index, docReq, madeDocs, docOverlaps, docTroubled>>
  /\ UNCHANGED <<objVars, export, failedRestore>>

(* The restore raises: what it wrote stays, and neither memory reloads.    *)
RestoreRaises ==
  /\ restore.at \in {"objects", "documents"} /\ restore.todo # {}
  /\ restore' = NoRestore
  /\ failedRestore' = TRUE
  /\ UNCHANGED <<requests, snapshot, docVars, objVars, export>>

-----------------------------------------------------------------------------
(* The two reloads, each of which clears and then fills.                   *)

ReloadObjects ==
  /\ restore.at = "documents" /\ restore.todo = {}
  /\ ClearObjects
  /\ restore' = [at |-> "fill_objects"]
  /\ UNCHANGED <<requests, snapshot, docVars, objFile, convergence, objReq, madeObjs, objOverlaps>>
  /\ UNCHANGED <<objTroubled, deleted, export, failedRestore>>

RefillObjects ==
  /\ restore.at = "fill_objects"
  /\ FillObjects
  /\ restore' = [at |-> "clear_documents"]
  /\ UNCHANGED <<requests, snapshot, docVars, objFile, convergence, objReq, madeObjs, objOverlaps>>
  /\ UNCHANGED <<objTroubled, deleted, export, failedRestore>>

ReloadDocuments ==
  /\ restore.at = "clear_documents"
  /\ ClearDocuments
  /\ restore' = [at |-> "fill_documents"]
  /\ UNCHANGED <<requests, snapshot, docFile, madeDocs, docOverlaps, docTroubled, objVars, export, failedRestore>>

RefillDocuments ==
  /\ restore.at = "fill_documents"
  /\ FillDocuments
  /\ restore' = NoRestore
  /\ failedRestore' = FALSE
  /\ UNCHANGED <<requests, snapshot, docFile, madeDocs, docOverlaps, docTroubled, objVars, export>>

Restart ==
  /\ OneMore
  /\ DocumentsOnStart /\ ObjectsOnStart
  /\ restore' = NoRestore
  /\ export' = None
  /\ failedRestore' = FALSE
  /\ docTroubled' = docTroubled \cup DocsInProgress
  /\ objTroubled' = objTroubled \cup ObjsInProgress
  /\ UNCHANGED <<snapshot, docFile, madeDocs, docOverlaps>>
  /\ UNCHANGED <<objFile, madeObjs, objOverlaps, deleted>>

RestoreStep ==
  \/ BeginRestore \/ NextStore \/ RestoreRaises
  \/ \E o \in Objects : RestoreObject(o)
  \/ \E d \in Docs : RestoreDocument(d)
  \/ ReloadObjects \/ RefillObjects \/ ReloadDocuments \/ RefillDocuments

StoresNext ==
  \/ \E t \in DocThreads :
       CanonStep(t) /\ (Mixed \/ madeObjs = {}) /\ UNCHANGED <<snapshot, restore, objVars, export, failedRestore>>
  \/ \E t \in ObjThreads :
       ObjStep(t) /\ (Mixed \/ madeDocs = {}) /\ UNCHANGED <<snapshot, restore, docVars, export, failedRestore>>
  \/ Export \/ ExportDocuments \/ RestoreStep \/ Restart

StoresSpec == StoresInit /\ [][StoresNext]_restoreVars

-----------------------------------------------------------------------------
(* Nothing else is missing: what a registered object depends on and        *)
(* validate_dependency_integrity does not find was deleted, or requests on *)
(* it overlapped each other or a restore, or a save of it was cut short,   *)
(* or a restore that ended early wrote it to the store only.               *)
UnresolvedWereDeleted ==
  ~Restoring => \A o \in Dangling :
    \/ o \in deleted \cup objOverlaps \cup objTroubled
    \/ failedRestore /\ objFile[o] # None

(* What a document and an object have in memory is what the store has,     *)
(* when no request or restore is in progress, unless a save raised, or     *)
(* requests overlapped each other or a restore, or a restore ended early   *)
(* (main.py, restore_backup: the memory "needs an explicit refresh").      *)
DocumentCached(d) ==
  IF docFile[d] = None THEN docs[d] = None
  ELSE docs[d] = docFile[d].document /\ chains[d] = docFile[d].versions

MemoryIsStored ==
  ~Restoring /\ ~failedRestore =>
    /\ \A d \in Docs \ (docOverlaps \cup docTroubled \cup DocsInProgress) : DocumentCached(d)
    /\ \A o \in Objects \ (objOverlaps \cup objTroubled \cup ObjsInProgress) :
         objects[o] = objFile[o]
=============================================================================
