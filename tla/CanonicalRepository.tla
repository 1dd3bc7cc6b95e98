------------------------- MODULE CanonicalRepository -------------------------
(***************************************************************************)
(* The canonical document repository (canonical_repository/).  Documents   *)
(* and their hash-chained versions are kept in three dictionaries in       *)
(* memory and written through to one record per document; request threads  *)
(* share the dictionaries without a lock, and a reload replaces them.      *)
(*                                                                         *)
(* A hash stands for what it was computed from: the contents of the        *)
(* version and of those below it.  Saves are whole (torn files are the     *)
(* subject of PackageRegistry and AuditChain).  Owner, title and status    *)
(* are left out.                                                           *)
(***************************************************************************)
EXTENDS Naturals, Sequences, FiniteSets, BackupState

CONSTANTS
  DocThreads,  \* request threads
  Docs,        \* document ids (fresh for every registration)
  Categories,
  Contents,    \* contents of versions
  Actors,      \* who sends requests
  RolesOf,     \* the roles of each actor
  WriteRoles,  \* the write_roles of every document
  Admin,       \* ADMIN_ROLE
  MaxVersions  \* bound: versions in a chain

VARIABLES
  docs,        \* _documents: id to document, or None
  chains,      \* _versions: id to a sequence of versions, or None
  index,       \* _category_index: category to id, or None
  docFile,     \* the records of the store: id to record, or None
  docReq,      \* the request each thread is in
  madeDocs,    \* the ids uuid4 has returned
  docOverlaps, \* history variable: documents and categories whose requests
               \*   overlapped another request or a restore
  docTroubled  \* history variable: documents a save of which raised or was cut

docVars == <<docs, chains, index, docFile, docReq, madeDocs, docOverlaps, docTroubled>>

(* A CanonicalDocument, a DocumentVersion, and what the store has of both. *)
Document == [category : Categories, current : Nat]
Version == [number : Nat, hash : Seq(Contents)]
DocRecord == [document : Document, versions : Seq(Version)]

ASSUME NoneIsNoDocument == None \notin Docs \cup Document \cup DocRecord \cup Seq(Version)

DocIdle == [at |-> "idle"]

(* _has_role                                                               *)
HasRole(roles, allowed) == Admin \in roles \/ roles \cap allowed # {}

MayWrite(actor) == HasRole(RolesOf[actor], WriteRoles)

-----------------------------------------------------------------------------
(* Versions and their chain                                                *)

(* The version that follows the last one of the history.                   *)
NextVersion(history, content) ==
  LET last == history[Len(history)] IN
  [number |-> last.number + 1, hash |-> Append(last.hash, content)]

FirstVersion(content) == [number |-> 1, hash |-> <<content>>]

(* _content_hash of what a version contains, after the given hash.         *)
Rehashed(version, previous) == Append(previous, version.hash[Len(version.hash)])

(* verify_chain: every recomputed hash is the recorded one.                *)
ChainIntact(history) ==
  \A i \in 1..Len(history) :
    history[i].hash = Rehashed(history[i], IF i = 1 THEN <<>> ELSE history[i - 1].hash)

-----------------------------------------------------------------------------
(* Which requests overlap (history only)                                   *)

DocActive(t) == docReq[t] # DocIdle

(* What the new request of t on d or in category c overlaps with.          *)
DocOverlap(t, keys) ==
  IF Restoring \/ \E u \in DocThreads \ {t} : DocActive(u) /\ docReq[u].keys \cap keys # {}
  THEN keys ELSE {}

(* A restore overlaps with every request that is in progress.              *)
DocsInProgress == UNION {docReq[t].keys : t \in {u \in DocThreads : DocActive(u)}}

CanonInit ==
  /\ docs = [d \in Docs |-> None]
  /\ chains = [d \in Docs |-> None]
  /\ index = [c \in Categories |-> None]
  /\ docFile = [d \in Docs |-> None]
  /\ docReq = [t \in DocThreads |-> DocIdle]
  /\ madeDocs = {}
  /\ docOverlaps = {} /\ docTroubled = {}

-----------------------------------------------------------------------------
(* register                                                                *)

(* The category is free; the document is made under a fresh id.            *)
BeginRegister(t, d, c, content) ==
  /\ docReq[t] = DocIdle /\ OneMore
  /\ \E actor \in Actors : MayWrite(actor)
  /\ index[c] = None
  /\ d \notin madeDocs
  /\ madeDocs' = madeDocs \cup {d}
  /\ docReq' = [docReq EXCEPT ![t] = [at |-> "insert", doc |-> d, keys |-> {d, c},
       document |-> [category |-> c, current |-> 1], version |-> FirstVersion(content)]]
  /\ docOverlaps' = docOverlaps \cup DocOverlap(t, {d, c})
  /\ UNCHANGED <<docs, chains, index, docFile, docTroubled>>

InsertDocument(t) ==
  /\ docReq[t].at = "insert"
  /\ LET r == docReq[t] IN
       /\ docs' = [docs EXCEPT ![r.doc] = r.document]
       /\ chains' = [chains EXCEPT ![r.doc] = <<r.version>>]
       /\ index' = [index EXCEPT ![r.document.category] = r.doc]
  /\ docReq' = [docReq EXCEPT ![t].at = "dump"]
  /\ UNCHANGED <<docFile, madeDocs, docOverlaps, docTroubled>>

-----------------------------------------------------------------------------
(* publish_version                                                         *)

BeginPublish(t, d) ==
  /\ docReq[t] = DocIdle /\ OneMore
  /\ docs[d] # None
  /\ \E actor \in Actors : MayWrite(actor)
  /\ docReq' = [docReq EXCEPT ![t] = [at |-> "read", doc |-> d, keys |-> {d}, document |-> docs[d]]]
  /\ docOverlaps' = docOverlaps \cup DocOverlap(t, {d})
  /\ UNCHANGED <<docs, chains, index, docFile, madeDocs, docTroubled>>

(* The new version is computed from the last one of the list in memory,    *)
(* which the thread goes on to hold, by the name of history.               *)
ReadLast(t, content) ==
  /\ docReq[t].at = "read"
  /\ LET d == docReq[t].doc IN
       /\ chains[d] # None /\ Len(chains[d]) < MaxVersions
       /\ docReq' = [docReq EXCEPT ![t] = [at |-> "append", doc |-> d, keys |-> @.keys,
            document |-> @.document, version |-> NextVersion(chains[d], content), held |-> TRUE]]
  /\ UNCHANGED <<docs, chains, index, docFile, madeDocs, docOverlaps, docTroubled>>

(* A defect: the list is looked up again.                                  *)
LooksUpList(t) ==
  LET r == docReq[t] IN
  IF chains[r.doc] = None THEN chains ELSE [chains EXCEPT ![r.doc] = Append(@, r.version)]

(* The append goes to the list that was read, which a reload may have      *)
(* replaced since.                                                         *)
Appended(t) ==
  LET r == docReq[t] IN
  IF r.held THEN [chains EXCEPT ![r.doc] = Append(@, r.version)] ELSE chains

AppendVersion(t) ==
  /\ docReq[t].at = "append"
  /\ chains' = Appended(t)
  /\ docReq' = [docReq EXCEPT ![t].at = "set"]
  /\ UNCHANGED <<docs, index, docFile, madeDocs, docOverlaps, docTroubled>>

(* A defect: the document keeps the number of its old version.             *)
OldNumber(r) == r.document

Updated(r) == [r.document EXCEPT !.current = r.version.number]

SetDocument(t) ==
  /\ docReq[t].at = "set"
  /\ docs' = [docs EXCEPT ![docReq[t].doc] = Updated(docReq[t])]
  /\ docReq' = [docReq EXCEPT ![t].at = "dump"]
  /\ UNCHANGED <<chains, index, docFile, madeDocs, docOverlaps, docTroubled>>

-----------------------------------------------------------------------------
(* _persist                                                                *)

(* The record is made of what memory holds by now.                         *)
DumpDocument(t) ==
  /\ docReq[t].at = "dump"
  /\ LET d == docReq[t].doc IN
       /\ docs[d] # None /\ chains[d] # None
       /\ docReq' = [docReq EXCEPT ![t] = [at |-> "save", doc |-> d, keys |-> @.keys,
            record |-> [document |-> docs[d], versions |-> chains[d]]]]
  /\ UNCHANGED <<docs, chains, index, docFile, madeDocs, docOverlaps, docTroubled>>

SaveDocument(t) ==
  /\ docReq[t].at = "save"
  /\ docFile' = [docFile EXCEPT ![docReq[t].doc] = docReq[t].record]
  /\ docReq' = [docReq EXCEPT ![t] = DocIdle]
  /\ UNCHANGED <<docs, chains, index, madeDocs, docOverlaps, docTroubled>>

(* The save raises, after memory was changed.                              *)
SaveDocumentRaises(t) ==
  /\ docReq[t].at = "save"
  /\ docTroubled' = docTroubled \cup docReq[t].keys
  /\ docReq' = [docReq EXCEPT ![t] = DocIdle]
  /\ UNCHANGED <<docs, chains, index, docFile, madeDocs, docOverlaps>>

(* KeyError: a reload has emptied the dictionaries and not refilled them.  *)
MissingInMemory(t) ==
  /\ \/ docReq[t].at = "read" /\ chains[docReq[t].doc] = None
     \/ docReq[t].at = "dump" /\ (docs[docReq[t].doc] = None \/ chains[docReq[t].doc] = None)
  /\ docReq' = [docReq EXCEPT ![t] = DocIdle]
  /\ UNCHANGED <<docs, chains, index, docFile, madeDocs, docOverlaps, docTroubled>>

-----------------------------------------------------------------------------
(* reload_from_persistent_store                                            *)

(* The dictionaries are replaced by empty ones; a list that a thread holds *)
(* is not in them any more.                                                *)
ClearDocuments ==
  /\ docs' = [d \in Docs |-> None]
  /\ chains' = [d \in Docs |-> None]
  /\ index' = [c \in Categories |-> None]
  /\ docReq' = [t \in DocThreads |->
       IF docReq[t].at = "append" THEN [docReq[t] EXCEPT !.held = FALSE] ELSE docReq[t]]

StoredDocs == {d \in Docs : docFile[d] # None}

(* A defect: the category index is not filled.                             *)
NotIndexed(c, d) == d = None

(* Of two stored documents of one category the index keeps the later one.  *)
MayIndex(c, d) ==
  IF \E e \in StoredDocs : docFile[e].document.category = c
  THEN d \in StoredDocs /\ docFile[d].document.category = c
  ELSE d = index[c]

(* Every stored record is put in, over what was put in since the clearing. *)
FillDocuments ==
  /\ docs' = [d \in Docs |-> IF d \in StoredDocs THEN docFile[d].document ELSE docs[d]]
  /\ chains' = [d \in Docs |-> IF d \in StoredDocs THEN docFile[d].versions ELSE chains[d]]
  /\ index' \in {f \in [Categories -> Docs \cup {None}] : \A c \in Categories : MayIndex(c, f[c])}
  /\ docReq' = [t \in DocThreads |->
       IF docReq[t].at = "append" /\ docReq[t].doc \in StoredDocs
       THEN [docReq[t] EXCEPT !.held = FALSE] ELSE docReq[t]]

(* A new process loads the stored documents.                               *)
DocumentsOnStart ==
  /\ docs' = [d \in Docs |-> IF d \in StoredDocs THEN docFile[d].document ELSE None]
  /\ chains' = [d \in Docs |-> IF d \in StoredDocs THEN docFile[d].versions ELSE None]
  /\ index' \in {f \in [Categories -> Docs \cup {None}] :
       \A c \in Categories :
         IF \E e \in StoredDocs : docFile[e].document.category = c
         THEN MayIndex(c, f[c]) ELSE f[c] = None}
  /\ docReq' = [t \in DocThreads |-> DocIdle]

CanonStep(t) ==
  \/ \E d \in Docs, c \in Categories, content \in Contents : BeginRegister(t, d, c, content)
  \/ \E d \in Docs : BeginPublish(t, d)
  \/ /\ UNCHANGED requests
     /\ \/ InsertDocument(t)
        \/ \E content \in Contents : ReadLast(t, content)
        \/ AppendVersion(t) \/ SetDocument(t)
        \/ DumpDocument(t) \/ SaveDocument(t) \/ SaveDocumentRaises(t) \/ MissingInMemory(t)

-----------------------------------------------------------------------------
(* Properties                                                              *)

(* Every version was computed from one that is below it in the same chain, *)
(* in memory and in the store, however publications, restores and deaths   *)
(* overlap: a fork never leads back to a version that was lost             *)
(* (canonical_repository/store.py, publish_version).                       *)
BuiltOnKept(history) ==
  \A i \in 2..Len(history) :
    \E j \in 1..(i - 1) : history[i].hash = Rehashed(history[i], history[j].hash)

PredecessorsKept ==
  \A d \in Docs :
    /\ chains[d] # None => BuiltOnKept(chains[d])
    /\ docFile[d] # None => BuiltOnKept(docFile[d].versions)

(* A record whose requests never overlapped verifies, counts its versions  *)
(* from 1 without a gap, and names its last one as current, although   *)
(* saves may raise and the process may die anywhere (verify_chain,         *)
(* latest_version).                                                        *)
StoredChainsVerify ==
  \A d \in Docs : docFile[d] # None /\ d \notin docOverlaps =>
    LET history == docFile[d].versions IN
    /\ ChainIntact(history)
    /\ \A i \in 1..Len(history) : history[i].number = i
    /\ docFile[d].document.current = Len(history)

(* Two documents share a category only when their registrations overlapped *)
(* each other or a restore, or the first could not be saved                *)
(* (canonical_repository/store.py, DuplicateCategoryError).                *)
CategoriesAreUnique ==
  \A d, e \in StoredDocs :
    d # e /\ docFile[d].document.category = docFile[e].document.category
      => docFile[d].document.category \in docOverlaps \cup docTroubled
=============================================================================
