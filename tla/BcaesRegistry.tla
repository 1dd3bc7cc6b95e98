---------------------------- MODULE BcaesRegistry ----------------------------
(***************************************************************************)
(* The BCAES registry (bcaes_registry/): objects that declare dependencies *)
(* on each other, kept in memory and written through to one record per     *)
(* object, and the convergence records teams attach to objects, kept in    *)
(* memory only.  Request threads share both without a lock.                *)
(*                                                                         *)
(* An object is its set of dependencies; the eleven registries and the     *)
(* other fields are left out, as their code is the same.  The clients are  *)
(* inside the authority boundaries of every object.                        *)
(***************************************************************************)
EXTENDS Naturals, FiniteSets, BackupState

CONSTANTS
  ObjThreads,  \* request threads
  Objects,     \* object ids (fresh for every registration)
  Dimensions   \* fields of a convergence record, each of a team of its own

VARIABLES
  objects,     \* _objects: id to object, or None
  objFile,     \* the records of the store: id to object, or None
  convergence, \* ConvergenceStore._records: id to the fields set, or None
  objReq,      \* the request each thread is in
  madeObjs,    \* the ids new_object_id has returned
  objOverlaps, \* history variable: objects whose requests overlapped another
               \*   request or a restore
  objTroubled, \* history variable: objects a save of which raised or was cut
  deleted      \* history variable: objects that were taken out of memory, and
               \*   that no restore has written to the store since

objVars == <<objects, objFile, convergence, objReq, madeObjs, objOverlaps, objTroubled, deleted>>

RegistryObject == [deps : SUBSET Objects]

ASSUME NoneIsNoObject == None \notin RegistryObject

ObjIdle == [at |-> "idle"]

(* _exists, get_by_id                                                      *)
Exists(o) == objects[o] # None

(* A defect: dependencies are taken as declared.                           *)
Declared(deps) == TRUE

(* Every dependency of a request has to exist.                             *)
AllExist(deps) == \A p \in deps : Exists(p)

(* validate_dependency_integrity: the dependencies that do not resolve.    *)
Dangling == (UNION {objects[p].deps : p \in {q \in Objects : Exists(q)}}) \ {o \in Objects : Exists(o)}

-----------------------------------------------------------------------------
ObjActive(t) == objReq[t] # ObjIdle

(* The objects of a new request of t that another request is working on.   *)
ObjOverlap(t, o) ==
  IF Restoring \/ \E u \in ObjThreads \ {t} : ObjActive(u) /\ objReq[u].obj = o THEN {o} ELSE {}

ObjsInProgress == {objReq[t].obj : t \in {u \in ObjThreads : ObjActive(u)}}

ObjInit ==
  /\ objects = [o \in Objects |-> None]
  /\ objFile = [o \in Objects |-> None]
  /\ convergence = [o \in Objects |-> None]
  /\ objReq = [t \in ObjThreads |-> ObjIdle]
  /\ madeObjs = {} /\ objOverlaps = {} /\ objTroubled = {} /\ deleted = {}

Begin(t, o, at, object) ==
  /\ objReq[t] = ObjIdle /\ OneMore
  /\ objReq' = [objReq EXCEPT ![t] = [at |-> at, obj |-> o, object |-> object]]
  /\ objOverlaps' = objOverlaps \cup ObjOverlap(t, o)

-----------------------------------------------------------------------------
(* register, update, delete                                                *)

RegisterObject(t, o, deps) ==
  /\ o \notin madeObjs
  /\ AllExist(deps)
  /\ Begin(t, o, "insert", [deps |-> deps])
  /\ madeObjs' = madeObjs \cup {o}
  /\ UNCHANGED <<objects, objFile, convergence, objTroubled, deleted>>

(* The request gives new dependencies, which have to exist, or leaves them *)
(* as they are, which nothing checks; the whole object is copied here and  *)
(* put back later.                                                         *)
UpdateObject(t, o, deps) ==
  /\ Exists(o)
  /\ deps = objects[o].deps \/ AllExist(deps)
  /\ Begin(t, o, "insert", [deps |-> deps])
  /\ UNCHANGED <<objects, objFile, convergence, madeObjs, objTroubled, deleted>>

InsertObject(t) ==
  /\ objReq[t].at = "insert"
  /\ objects' = [objects EXCEPT ![objReq[t].obj] = objReq[t].object]
  /\ objReq' = [objReq EXCEPT ![t].at = "persist"]
  /\ UNCHANGED <<objFile, convergence, madeObjs, objOverlaps, objTroubled, deleted>>

(* What _persist saves: the object the request made.                       *)
Persisted(t) == objReq[t].object

PersistObject(t) ==
  /\ objReq[t].at = "persist"
  /\ objFile' = [objFile EXCEPT ![objReq[t].obj] = Persisted(t)]
  /\ objReq' = [objReq EXCEPT ![t] = ObjIdle]
  /\ UNCHANGED <<objects, convergence, madeObjs, objOverlaps, objTroubled, deleted>>

(* delete looks at no consumers.                                           *)
DeleteObject(t, o) ==
  /\ Exists(o)
  /\ Begin(t, o, "remove", None)
  /\ UNCHANGED <<objects, objFile, convergence, madeObjs, objTroubled, deleted>>

(* Taking out an object another request has taken out raises KeyError.     *)
RemoveObject(t) ==
  /\ objReq[t].at = "remove"
  /\ objects' = [objects EXCEPT ![objReq[t].obj] = None]
  /\ objReq' = [objReq EXCEPT ![t] = IF Exists(@.obj) THEN [@ EXCEPT !.at = "unpersist"] ELSE ObjIdle]
  /\ deleted' = deleted \cup {objReq[t].obj}
  /\ UNCHANGED <<objFile, convergence, madeObjs, objOverlaps, objTroubled>>

(* A defect: the record stays in the store.                                *)
KeepsRecord(o) == objFile

Unpersisted(o) == [objFile EXCEPT ![o] = None]

UnpersistObject(t) ==
  /\ objReq[t].at = "unpersist"
  /\ objFile' = Unpersisted(objReq[t].obj)
  /\ objReq' = [objReq EXCEPT ![t] = ObjIdle]
  /\ UNCHANGED <<objects, convergence, madeObjs, objOverlaps, objTroubled, deleted>>

(* The store raises; memory stays changed.                                 *)
ObjectSaveRaises(t) ==
  /\ objReq[t].at \in {"persist", "unpersist"}
  /\ objTroubled' = objTroubled \cup {objReq[t].obj}
  /\ objReq' = [objReq EXCEPT ![t] = ObjIdle]
  /\ UNCHANGED <<objects, objFile, convergence, madeObjs, objOverlaps, deleted>>

-----------------------------------------------------------------------------
(* ConvergenceStore.upsert                                                 *)

FieldsOf(o) == IF convergence[o] = None THEN {} ELSE convergence[o]

(* The stored record with the fields of the request.                       *)
Merged(o, fields) == FieldsOf(o) \cup fields

BeginUpsert(t, o, fields) ==
  /\ Exists(o)
  /\ objReq[t] = ObjIdle /\ OneMore
  /\ objReq' = [objReq EXCEPT ![t] = [at |-> "merge", obj |-> o, object |-> None,
       fields |-> fields, merged |-> Merged(o, fields)]]
  /\ objOverlaps' = objOverlaps \cup ObjOverlap(t, o)
  /\ UNCHANGED <<objects, objFile, convergence, madeObjs, objTroubled, deleted>>

EndUpsert(t) ==
  /\ objReq[t].at = "merge"
  /\ convergence' = [convergence EXCEPT ![objReq[t].obj] = objReq[t].merged]
  /\ objReq' = [objReq EXCEPT ![t] = ObjIdle]
  /\ UNCHANGED <<objects, objFile, madeObjs, objOverlaps, objTroubled, deleted>>

-----------------------------------------------------------------------------
(* reload_from_persistent_store, in a restore and at the start             *)

ClearObjects == objects' = [o \in Objects |-> None]

FillObjects == objects' = [o \in Objects |-> IF objFile[o] # None THEN objFile[o] ELSE objects[o]]

(* A new process has the stored objects, and no convergence records.       *)
ObjectsOnStart ==
  /\ objects' = objFile
  /\ convergence' = [o \in Objects |-> None]
  /\ objReq' = [t \in ObjThreads |-> ObjIdle]

ObjStep(t) ==
  \/ \E o \in Objects, deps \in SUBSET Objects :
       RegisterObject(t, o, deps) \/ UpdateObject(t, o, deps)
  \/ \E o \in Objects : DeleteObject(t, o)
  \/ \E o \in Objects, f \in Dimensions : BeginUpsert(t, o, {f})
  \/ /\ UNCHANGED requests
     /\ \/ InsertObject(t) \/ PersistObject(t) \/ RemoveObject(t) \/ UnpersistObject(t)
        \/ ObjectSaveRaises(t) \/ EndUpsert(t)

-----------------------------------------------------------------------------
(* Properties                                                              *)

(* A deletion lasts: a deleted object is not in memory, nor in the store   *)
(* once its request is over, and no death or reload brings it back, unless *)
(* a restore wrote it again, or another request on it or a restore         *)
(* overlapped one of its requests (an update puts back what it copied), or *)
(* its record was not erased (store.py, delete and _unpersist).            *)
ErasedByRequest(o) == \E t \in ObjThreads : objReq[t].at = "unpersist" /\ objReq[t].obj = o

DeletionsLast ==
  \A o \in deleted \ (objOverlaps \cup objTroubled) :
    objects[o] = None /\ (objFile[o] = None \/ ErasedByRequest(o))
=============================================================================
