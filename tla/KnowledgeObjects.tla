--------------------------- MODULE KnowledgeObjects ---------------------------
(***************************************************************************)
(* Knowledge objects (services/knowledge_object_service.py): an object of  *)
(* a package refers to the package it derives from, and the object of that *)
(* one lists its children.  An object is stored twice, under its id and    *)
(* under its package.  register_object loads the object of the parent,     *)
(* appends the child, and saves the parent's two files and then the        *)
(* child's two, without a lock.  The process may die at any step, and any  *)
(* save may fail.  A save is one step here: files that are cut in the      *)
(* middle of one are a subject of RecordFiles and PackageRegistry.         *)
(***************************************************************************)
EXTENDS Naturals, FiniteSets, Sequences

CONSTANTS KThreads,   \* request threads
          Packages,   \* the packages of the registry
          Major,      \* their major schema versions
          NoPackage,  \* no parent
          NoObject,   \* no file under a key
          MaxObjects  \* bound: registrations that make an object

Objects == [id : 1..MaxObjects, package : Packages, parent : Packages \cup {NoPackage},
            children : SUBSET Packages]

ASSUME KnowledgeAssumption ==
  /\ IsFiniteSet(KThreads) /\ IsFiniteSet(Packages) /\ MaxObjects \in Nat
  /\ NoPackage \notin Packages /\ NoObject \notin Objects

VARIABLES byId,      \* the files under the objects' ids
          byPackage, \* the files under by-package-<package>
          made,      \* objects made so far, whose ids are 1 .. made
          kjob,      \* what each thread does
          overlapped, \* history variable: packages whose objects two
                      \*   registrations used at a time
          cut         \* history variable: those one that did not end used

knowledgeVars == <<byId, byPackage, made, kjob, overlapped, cut>>

Object(id, package, parent, children) ==
  [id |-> id, package |-> package, parent |-> parent, children |-> children]

Idle == [at |-> "idle"]

KnowledgeInit ==
  /\ byId = [i \in 1..MaxObjects |-> NoObject]
  /\ byPackage = [p \in Packages |-> NoObject]
  /\ made = 0
  /\ kjob = [t \in KThreads |-> Idle]
  /\ overlapped = {} /\ cut = {}

-----------------------------------------------------------------------------
(* The objects a registration in progress reads or replaces.               *)
Concerns(job) == IF job.at = "idle" THEN {} ELSE {job.package, job.parent} \cap Packages

Comparing == {t \in KThreads : kjob[t].at = "compare"}

(* register_object of a package for a parent, up to reading the parent's   *)
(* object.                                                                 *)
BeginObject(t, p, parent) ==
  LET job == [at |-> "compare", package |-> p, parent |-> parent,
              loaded |-> IF parent = NoPackage THEN NoObject ELSE byPackage[parent]]
  IN /\ kjob[t] = Idle /\ made + Cardinality(Comparing) < MaxObjects
     /\ kjob' = [kjob EXCEPT ![t] = job]
     /\ overlapped' = overlapped \cup
          (Concerns(job) \cap UNION {Concerns(kjob[u]) : u \in KThreads})
     /\ UNCHANGED <<byId, byPackage, made, cut>>

(* _validate_version_compatibility *)
Compatible(child, parent) == Major[child] = Major[parent]

(* A parent of another major version ends the request with an error.       *)
RefuseObject(t) ==
  /\ kjob[t].at = "compare"
  /\ kjob[t].loaded # NoObject /\ ~Compatible(kjob[t].package, kjob[t].parent)
  /\ kjob' = [kjob EXCEPT ![t] = Idle]
  /\ UNCHANGED <<byId, byPackage, made, overlapped, cut>>

WithChild(object, p) ==
  [object EXCEPT !.children = @ \cup {p}]

(* A defect: the child is saved before the list it belongs to.             *)
ChildFirst(job, object) ==
  IF job.loaded # NoObject /\ WithChild(job.loaded, job.package) # job.loaded
  THEN <<object, WithChild(job.loaded, job.package)>>
  ELSE <<object>>

(* The objects to save, in order: the parent when it has one and did not   *)
(* list the child, and the object itself.                                  *)
ToSave(job, object) ==
  IF job.loaded # NoObject /\ WithChild(job.loaded, job.package) # job.loaded
  THEN <<WithChild(job.loaded, job.package), object>>
  ELSE <<object>>

(* The object is new, with a new id and no children, also when the package *)
(* has one already.                                                        *)
MakeObject(t) ==
  LET job == kjob[t]
      object == Object(made + 1, job.package, job.parent, {})
  IN /\ job.at = "compare"
     /\ job.loaded # NoObject => Compatible(job.package, job.parent)
     /\ made' = made + 1
     /\ kjob' = [kjob EXCEPT ![t] =
          [at |-> "save_id", package |-> job.package, parent |-> job.parent,
           save |-> ToSave(job, object)]]
     /\ UNCHANGED <<byId, byPackage, overlapped, cut>>

-----------------------------------------------------------------------------
(* _save: the file under the id, then the file under the package.          *)

(* A defect: the file under the id is written once and never again.        *)
IdWrittenOnce(t) ==
  LET object == Head(kjob[t].save)
  IN /\ kjob[t].at = "save_id"
     /\ byId' = [byId EXCEPT ![object.id] = IF @ = NoObject THEN object ELSE @]
     /\ kjob' = [kjob EXCEPT ![t].at = "save_package"]
     /\ UNCHANGED <<byPackage, made, overlapped, cut>>

SaveById(t) ==
  LET object == Head(kjob[t].save)
  IN /\ kjob[t].at = "save_id"
     /\ byId' = [byId EXCEPT ![object.id] = object]
     /\ kjob' = [kjob EXCEPT ![t].at = "save_package"]
     /\ UNCHANGED <<byPackage, made, overlapped, cut>>

(* After the parent's files come the object's own; after those it returns. *)
Saved(job) ==
  IF Len(job.save) = 1 THEN Idle
  ELSE [job EXCEPT !.at = "save_id", !.save = Tail(@)]

SaveByPackage(t) ==
  LET object == Head(kjob[t].save)
  IN /\ kjob[t].at = "save_package"
     /\ byPackage' = [byPackage EXCEPT ![object.package] = object]
     /\ kjob' = [kjob EXCEPT ![t] = Saved(kjob[t])]
     /\ UNCHANGED <<byId, made, overlapped, cut>>

(* What was saved before stays.  (Bound: one failure or death.)            *)
ObjectSaveFails(t) ==
  /\ kjob[t].at \in {"save_id", "save_package"} /\ cut = {}
  /\ kjob' = [kjob EXCEPT ![t] = Idle]
  /\ cut' = cut \cup Concerns(kjob[t])
  /\ UNCHANGED <<byId, byPackage, made, overlapped>>

KnowledgeCrash ==
  /\ (\E t \in KThreads : kjob[t] # Idle) /\ cut = {}
  /\ cut' = cut \cup UNION {Concerns(kjob[t]) : t \in KThreads}
  /\ kjob' = [t \in KThreads |-> Idle]
  /\ UNCHANGED <<byId, byPackage, made, overlapped>>

KnowledgeStep(t) ==
  \/ \E p \in Packages, parent \in Packages \cup {NoPackage} : BeginObject(t, p, parent)
  \/ RefuseObject(t) \/ MakeObject(t)
  \/ SaveById(t) \/ SaveByPackage(t)
  \/ ObjectSaveFails(t)

-----------------------------------------------------------------------------
(* lineage: the ancestors of a package by the stored parents, as far as    *)
(* they have objects and until one repeats; and its descendants.           *)
ParentOf(p) == IF byPackage[p] # NoObject THEN byPackage[p].parent ELSE NoPackage

(* One more ancestor, on a path that has grown at every step before.       *)
Further(path, n) ==
  LET next == ParentOf(path[Len(path)])
  IN IF Len(path) < n \/ next = NoPackage \/ \E i \in DOMAIN path : path[i] = next
     THEN path ELSE Append(path, next)

Ancestors(p) ==
  LET walk[n \in 0..Cardinality(Packages)] == IF n = 0 THEN <<p>> ELSE Further(walk[n - 1], n)
  IN Tail(walk[Cardinality(Packages)])

Descendants(p) ==
  IF byPackage[p] # NoObject THEN byPackage[p].children ELSE {}

(* The two directions of a lineage agree: a package is a descendant of its *)
(* first ancestor.  Not when the ancestor's object was made after the      *)
(* package's, which replaces the list, or while one of the two is being    *)
(* registered; and a registration may lose the children another one that   *)
(* overlapped it has added.  A death leaves children listed that were      *)
(* never registered, and never the reverse.                                *)
InProgress == UNION {Concerns(kjob[t]) : t \in KThreads}

LineageIsMutual ==
  \A p \in Packages :
    LET parent == Head(Ancestors(p))
    IN /\ Ancestors(p) # <<>>
       /\ byPackage[parent] # NoObject /\ byPackage[parent].id < byPackage[p].id
       /\ parent \notin InProgress \cup overlapped
       => p \in Descendants(parent)

(* An object found under its package is found under its id, from the first *)
(* moment on, with the same contents once its registration is over, unless *)
(* registrations overlapped or one did not end.                            *)
KeysAgree ==
  \A p \in Packages :
    byPackage[p] # NoObject =>
      /\ byId[byPackage[p].id] # NoObject
      /\ p \notin InProgress \cup overlapped \cup cut => byId[byPackage[p].id] = byPackage[p]

=============================================================================
