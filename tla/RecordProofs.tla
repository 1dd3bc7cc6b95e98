------------------------------ MODULE RecordProofs ------------------------------
(* Proofs about the shared records, for any records, fields and threads:    *)
(* what overlapping requests may lose, and what they cannot break; and      *)
(* about the two files and the lineage of knowledge objects.                *)
EXTENDS RecordRequests, FiniteSetTheorems, WellFoundedInduction, TLAPS

Good(record) == Replays(record) /\ EndsWithDeprecation(record)

SharedType ==
  /\ shared \in [Records -> SharedRecord \cup {NoRecord}]
  /\ sjob \in [SThreads -> {NotBusy} \cup [at : {"save"}, record : Records, changed : SharedRecord]]
  /\ saves \in [Records -> Nat]

(* A thread holds only what it may save over anything it did not read.      *)
RecordsWhole ==
  /\ \A r \in Records : shared[r] # NoRecord => Good(shared[r])
  /\ \A t \in SThreads : sjob[t] # NotBusy => Good(sjob[t].changed)

VersionOf(r) == IF shared[r] = NoRecord THEN 0 ELSE shared[r].version

(* What the threads hold goes at most one beyond the confirmed changes, and *)
(* one beyond exactly while a record's requests follow one another.         *)
Counted ==
  /\ \A r \in Records :
       /\ VersionOf(r) <= saves[r]
       /\ r \in withdrawn => saves[r] > 0
       /\ r \notin raced => /\ VersionOf(r) = saves[r]
                            /\ r \in withdrawn => shared[r].deprecated
  /\ \A t \in SThreads : sjob[t] # NotBusy =>
       LET r == sjob[t].record IN
         /\ sjob[t].changed.version <= saves[r] + 1
         /\ r \notin raced => /\ sjob[t].changed.version = saves[r] + 1
                              /\ r \notin withdrawn
                              /\ \A u \in SThreads \ {t} : sjob[u] # NotBusy => sjob[u].record # r

SharedInv == SharedType /\ RecordsWhole /\ Counted

------------------------------------------------------------------------------
(* The three kinds of change make a good record of a good one.              *)
LEMMA FirstIsGood ==
  ASSUME NEW payload \in Payloads
  PROVE  FirstRecord(payload) \in SharedRecord /\ Good(FirstRecord(payload))
  BY DEF FirstRecord, SharedRecord, Payloads, Transition, Transitions, Good, Replays,
         EndsWithDeprecation

LEMMA UpdateIsGood ==
  ASSUME NEW record \in SharedRecord, Good(record), ~record.deprecated,
         NEW payload \in Payloads
  PROVE  Updates(record, payload) \in SharedRecord /\ Good(Updates(record, payload))
<1> DEFINE history == Append(record.history, Transition(record.version + 1, "UPDATED"))
<1>1. Updates(record, payload) =
        [payload |-> payload, version |-> record.version + 1, deprecated |-> FALSE,
         history |-> history]
  <2>1. record = [payload |-> record.payload, version |-> record.version,
                  deprecated |-> record.deprecated, history |-> record.history]
    BY DEF SharedRecord
  <2> HIDE DEF history
  <2>2. Updates(record, payload) =
          [record EXCEPT !.payload = payload, !.version = record.version + 1, !.history = history]
    BY DEF Updates, history
  <2> QED
    BY <2>1, <2>2 DEF SharedRecord
<1>2. history \in Seq(Transitions) /\ Len(history) = Len(record.history) + 1
  BY DEF Transition, Transitions, SharedRecord
<1>3. \A i \in 1..Len(history) :
        history[i] = IF i <= Len(record.history) THEN record.history[i]
                     ELSE Transition(record.version + 1, "UPDATED")
  BY DEF SharedRecord
<1> HIDE DEF history
<1>4. Updates(record, payload) \in SharedRecord
  BY <1>1, <1>2 DEF SharedRecord, Payloads
<1>5. Good(Updates(record, payload))
  BY <1>1, <1>2, <1>3 DEF Good, Replays, EndsWithDeprecation, Transition, SharedRecord
<1> QED
  BY <1>4, <1>5

LEMMA DeprecationIsGood ==
  ASSUME NEW record \in SharedRecord, Good(record), ~record.deprecated
  PROVE  Deprecates(record) \in SharedRecord /\ Good(Deprecates(record))
<1> DEFINE history == Append(record.history, Transition(record.version + 1, "DEPRECATED"))
<1>1. Deprecates(record) =
        [payload |-> record.payload, version |-> record.version + 1, deprecated |-> TRUE,
         history |-> history]
  <2>1. record = [payload |-> record.payload, version |-> record.version,
                  deprecated |-> record.deprecated, history |-> record.history]
    BY DEF SharedRecord
  <2> HIDE DEF history
  <2>2. Deprecates(record) =
          [record EXCEPT !.deprecated = TRUE, !.version = record.version + 1, !.history = history]
    BY DEF Deprecates, history
  <2> QED
    BY <2>1, <2>2 DEF SharedRecord
<1>2. history \in Seq(Transitions) /\ Len(history) = Len(record.history) + 1
  BY DEF Transition, Transitions, SharedRecord
<1>3. \A i \in 1..Len(history) :
        history[i] = IF i <= Len(record.history) THEN record.history[i]
                     ELSE Transition(record.version + 1, "DEPRECATED")
  BY DEF SharedRecord
<1> HIDE DEF history
<1>4. Deprecates(record) \in SharedRecord
  BY <1>1, <1>2 DEF SharedRecord
<1>5. Good(Deprecates(record))
  BY <1>1, <1>2, <1>3 DEF Good, Replays, EndsWithDeprecation, Transition, SharedRecord
<1> QED
  BY <1>4, <1>5

(* A request that has made its change, whichever it is.                     *)
LEMMA HoldingKeepsSharedInv ==
  ASSUME SharedInv, NEW t \in SThreads, NEW r \in Records, NEW changed \in SharedRecord,
         Good(changed), changed.version = VersionOf(r) + 1,
         shared[r] # NoRecord => ~shared[r].deprecated,
         Holds(t, r, changed)
  PROVE  SharedInv'
<1> DEFINE new == [at |-> "save", record |-> r, changed |-> changed]
<1>1. /\ sjob' = [sjob EXCEPT ![t] = new] /\ sjob[t] = NotBusy
      /\ UNCHANGED <<shared, saves, withdrawn>>
      /\ raced' = IF Busy(r) THEN raced \cup {r} ELSE raced
  BY DEF Holds
<1>2. SharedType'
  BY <1>1 DEF SharedInv, SharedType
<1>3. \A u \in SThreads : sjob'[u] = IF u = t THEN new ELSE sjob[u]
  BY <1>1 DEF SharedInv, SharedType
<1>4. RecordsWhole'
  BY <1>1, <1>3 DEF SharedInv, RecordsWhole
<1>5. raced \subseteq raced'
  BY <1>1
<1>6. r \notin raced' => r \notin withdrawn /\ \A u \in SThreads : sjob[u] # NotBusy => sjob[u].record # r
  BY <1>1 DEF Busy, SharedInv, SharedType, Counted, VersionOf
<1>7. ASSUME NEW q \in Records
      PROVE  /\ VersionOf(q)' <= saves'[q]
             /\ q \in withdrawn' => saves'[q] > 0
             /\ q \notin raced' => /\ VersionOf(q)' = saves'[q]
                                   /\ q \in withdrawn' => shared'[q].deprecated
  BY <1>1, <1>5 DEF SharedInv, Counted, VersionOf
<1>8. ASSUME NEW u \in SThreads, sjob'[u] # NotBusy
      PROVE  LET q == sjob'[u].record IN
               /\ sjob'[u].changed.version <= saves'[q] + 1
               /\ q \notin raced' => /\ sjob'[u].changed.version = saves'[q] + 1
                                     /\ q \notin withdrawn'
                                     /\ \A v \in SThreads \ {u} :
                                          sjob'[v] # NotBusy => sjob'[v].record # q
  <2>1. CASE u = t
    <3>1. VersionOf(r) \in Nat /\ saves[r] \in Nat /\ VersionOf(r) <= saves[r]
      BY DEF SharedInv, SharedType, Counted, VersionOf, SharedRecord
    <3>2. r \notin raced' => VersionOf(r) = saves[r]
      BY <1>5 DEF SharedInv, Counted
    <3> QED
      BY <2>1, <3>1, <3>2, <1>1, <1>3, <1>6
  <2>2. CASE u # t
    <3>1. sjob'[u] = sjob[u] /\ sjob[u] # NotBusy /\ sjob[u].record \in Records
      BY <2>2, <1>3, <1>8 DEF SharedInv, SharedType
    <3> QED
      BY <3>1, <2>2, <1>1, <1>3, <1>5, <1>6 DEF SharedInv, Counted
  <2> QED
    BY <2>1, <2>2
<1>9. Counted'
  BY <1>7, <1>8 DEF Counted
<1> QED
  BY <1>2, <1>4, <1>9 DEF SharedInv

(* _save writes what the thread holds, over whatever is there now.          *)
LEMMA SavingKeepsSharedInv ==
  ASSUME SharedInv, NEW t \in SThreads, SaveRecord(t)
  PROVE  SharedInv'
<1> DEFINE r == sjob[t].record
           changed == sjob[t].changed
<1>1. /\ sjob[t] # NotBusy
      /\ shared' = [shared EXCEPT ![r] = changed]
      /\ saves' = [saves EXCEPT ![r] = @ + 1]
      /\ withdrawn' = IF changed.deprecated THEN withdrawn \cup {r} ELSE withdrawn
      /\ sjob' = [sjob EXCEPT ![t] = NotBusy]
      /\ raced' = raced
  BY DEF SaveRecord, NotBusy
<1>2. r \in Records /\ changed \in SharedRecord /\ changed # NoRecord
  BY <1>1, NoRecordAssumption DEF SharedInv, SharedType
<1>3. Good(changed)
  BY <1>1 DEF SharedInv, RecordsWhole
<1> HIDE DEF r, changed
<1>4. SharedType'
  BY <1>1, <1>2 DEF SharedInv, SharedType
<1>5. \A u \in SThreads : sjob'[u] = IF u = t THEN NotBusy ELSE sjob[u]
  BY <1>1 DEF SharedInv, SharedType
<1>6. /\ \A q \in Records : shared'[q] = IF q = r THEN changed ELSE shared[q]
      /\ \A q \in Records : saves'[q] = IF q = r THEN saves[q] + 1 ELSE saves[q]
      /\ \A q \in Records : saves[q] \in Nat
  BY <1>1, <1>2 DEF SharedInv, SharedType
<1>7. RecordsWhole'
  BY <1>3, <1>5, <1>6 DEF SharedInv, RecordsWhole
<1>8. /\ changed.version <= saves[r] + 1 /\ changed.version \in Nat
      /\ r \notin raced => /\ changed.version = saves[r] + 1
                           /\ r \notin withdrawn
                           /\ \A u \in SThreads \ {t} : sjob[u] # NotBusy => sjob[u].record # r
  BY <1>1, <1>2 DEF SharedInv, Counted, r, changed, SharedRecord
<1>9. ASSUME NEW q \in Records
      PROVE  /\ VersionOf(q)' <= saves'[q]
             /\ q \in withdrawn' => saves'[q] > 0
             /\ q \notin raced' => /\ VersionOf(q)' = saves'[q]
                                   /\ q \in withdrawn' => shared'[q].deprecated
  BY <1>1, <1>2, <1>6, <1>8 DEF SharedInv, Counted, VersionOf
<1>10. ASSUME NEW u \in SThreads, sjob'[u] # NotBusy
       PROVE  LET q == sjob'[u].record IN
                /\ sjob'[u].changed.version <= saves'[q] + 1
                /\ q \notin raced' => /\ sjob'[u].changed.version = saves'[q] + 1
                                      /\ q \notin withdrawn'
                                      /\ \A v \in SThreads \ {u} :
                                           sjob'[v] # NotBusy => sjob'[v].record # q
  <2>1. u # t /\ sjob'[u] = sjob[u] /\ sjob[u] # NotBusy
    BY <1>5, <1>10
  <2>2. sjob[u].record \in Records /\ sjob[u].changed.version \in Nat
    BY <2>1 DEF SharedInv, SharedType, SharedRecord
  <2>3. sjob[u].record # r \/ r \in raced
    BY <2>1, <1>8
  <2> QED
    BY <2>1, <2>2, <2>3, <1>1, <1>5, <1>6 DEF SharedInv, Counted
<1>11. Counted'
  BY <1>9, <1>10 DEF Counted
<1> QED
  BY <1>4, <1>7, <1>11 DEF SharedInv

(* A save that fails takes the held change away.                            *)
LEMMA FailingKeepsSharedInv ==
  ASSUME SharedInv, NEW t \in SThreads, SaveRecordFails(t)
  PROVE  SharedInv'
<1>1. sjob' = [sjob EXCEPT ![t] = NotBusy] /\ UNCHANGED <<shared, saves, withdrawn, raced>>
  BY DEF SaveRecordFails
<1>2. \A u \in SThreads : sjob'[u] = IF u = t THEN NotBusy ELSE sjob[u]
  BY <1>1 DEF SharedInv, SharedType
<1>3. SharedType' /\ RecordsWhole'
  BY <1>1, <1>2 DEF SharedInv, SharedType, RecordsWhole
<1>4. Counted'
  BY <1>1, <1>2 DEF SharedInv, Counted, VersionOf
<1> QED
  BY <1>3, <1>4 DEF SharedInv

------------------------------------------------------------------------------
LEMMA SharedStepKeepsSharedInv ==
  ASSUME SharedInv, NEW t \in SThreads, SharedStep(t)
  PROVE  SharedInv'
<1>1. ASSUME NEW r \in Records, NEW payload \in Payloads, RegisterRecord(t, r, payload)
      PROVE  SharedInv'
  <2>1. shared[r] = NoRecord /\ Holds(t, r, FirstRecord(payload))
    BY <1>1 DEF RegisterRecord
  <2>2. FirstRecord(payload).version = VersionOf(r) + 1
    BY <2>1 DEF FirstRecord, VersionOf
  <2> QED
    BY <2>1, <2>2, FirstIsGood, HoldingKeepsSharedInv
<1>2. ASSUME NEW r \in Records, MayChange(shared[r])
      PROVE  /\ shared[r] \in SharedRecord /\ shared[r] # NoRecord /\ ~shared[r].deprecated
             /\ Good(shared[r]) /\ VersionOf(r) = shared[r].version
  BY <1>2 DEF MayChange, SharedInv, SharedType, RecordsWhole, VersionOf
<1>3. ASSUME NEW r \in Records, NEW payload \in Payloads, UpdateRecord(t, r, payload)
      PROVE  SharedInv'
  <2>1. MayChange(shared[r]) /\ Holds(t, r, Updates(shared[r], payload))
    BY <1>3 DEF UpdateRecord
  <2>2. Updates(shared[r], payload).version = VersionOf(r) + 1
    BY <2>1, <1>2 DEF Updates, SharedRecord
  <2> QED
    BY <2>1, <2>2, <1>2, UpdateIsGood, HoldingKeepsSharedInv
<1>4. ASSUME NEW r \in Records, DeprecateRecord(t, r)
      PROVE  SharedInv'
  <2>1. MayChange(shared[r]) /\ Holds(t, r, Deprecates(shared[r]))
    BY <1>4 DEF DeprecateRecord
  <2>2. Deprecates(shared[r]).version = VersionOf(r) + 1
    BY <2>1, <1>2 DEF Deprecates, SharedRecord
  <2> QED
    BY <2>1, <2>2, <1>2, DeprecationIsGood, HoldingKeepsSharedInv
<1> QED
  BY <1>1, <1>3, <1>4, SavingKeepsSharedInv, FailingKeepsSharedInv DEF SharedStep

(* The inductive invariant, for all behaviours.                             *)
LEMMA SpecSharedInv == Spec => []SharedInv
<1>1. Init => SharedInv
  BY DEF Init, SharedInit, SharedInv, SharedType, RecordsWhole, Counted, VersionOf
<1>2. SharedInv /\ [Next]_recordVars => SharedInv'
  <2> SUFFICES ASSUME SharedInv, [Next]_recordVars
               PROVE  SharedInv'
    OBVIOUS
  <2>1. CASE UNCHANGED sharedVars
    BY <2>1 DEF sharedVars, SharedInv, SharedType, RecordsWhole, Counted, VersionOf
  <2>2. CASE UNCHANGED recordVars
    BY <2>1, <2>2 DEF recordVars
  <2> QED
    BY <2>1, <2>2, SharedStepKeepsSharedInv DEF Next
<1> QED
  BY <1>1, <1>2, PTL DEF Spec

(* Whatever overlaps and whatever fails, a stored record replays to its     *)
(* version and flag and nothing follows its deprecation                     *)
(* (shared_record_store.py, replay).                                        *)
THEOREM RecordsReplay == Spec => []SharedRecordsReplay
<1>1. SharedInv => SharedRecordsReplay
  BY DEF SharedInv, RecordsWhole, Good, SharedRecordsReplay
<1> QED
  BY <1>1, SpecSharedInv, PTL

(* A stored version never counts more than the confirmed changes, and as    *)
(* many of them as long as the requests on the record do not overlap; then  *)
(* a confirmed deprecation stays (shared_record_store.py, update and        *)
(* deprecate).                                                              *)
THEOREM ChangesCount == Spec => []ConfirmedChangesCount
<1>1. SharedInv => ConfirmedChangesCount
  BY DEF SharedInv, Counted, VersionOf, ConfirmedChangesCount
<1> QED
  BY <1>1, SpecSharedInv, PTL

-----------------------------------------------------------------------------
(* What a thread at the comparison, or at a save, holds.                    *)
CompareJobs == [at : {"compare"}, package : Packages, parent : Packages \cup {NoPackage},
                loaded : Objects \cup {NoObject}]
SaveJobs == [at : {"save_id", "save_package"}, package : Packages,
             parent : Packages \cup {NoPackage}, save : Seq(Objects)]

KnowledgeType ==
  /\ made \in Nat /\ made + Cardinality(Comparing) <= MaxObjects
  /\ byId \in [1..MaxObjects -> Objects \cup {NoObject}]
  /\ byPackage \in [Packages -> Objects \cup {NoObject}]
  /\ kjob \in [KThreads -> {Idle} \cup CompareJobs \cup SaveJobs]

(* Two threads concerned with one package have overlapped.                  *)
NothingShared ==
  \A t, u \in KThreads : t # u => Concerns(kjob[t]) \cap Concerns(kjob[u]) \subseteq overlapped

(* A thread saves the parent's object, when it has one to save, and then    *)
(* its own; a file under a package follows the file under the id.           *)
SavesSound ==
  \A t \in KThreads : kjob[t] \in SaveJobs =>
    LET save == kjob[t].save IN
      /\ Len(save) \in {1, 2}
      /\ save[Len(save)].package = kjob[t].package /\ save[Len(save)].parent = kjob[t].parent
      /\ Len(save) = 2 => save[1].package = kjob[t].parent /\ kjob[t].package \in save[1].children
      /\ kjob[t].at = "save_package" =>
           /\ byId[save[1].id] # NoObject
           /\ save[1].package \notin overlapped => byId[save[1].id] = save[1]

LoadsSound ==
  \A t \in KThreads : kjob[t] \in CompareJobs /\ kjob[t].loaded # NoObject =>
    kjob[t].loaded.package = kjob[t].parent

(* An id belongs to one package, wherever an object occurs.                 *)
Owned(owner, object) ==
  object # NoObject => object.id <= made /\ owner[object.id] = object.package
AllOwned(owner) ==
  /\ \A p \in Packages : Owned(owner, byPackage[p])
  /\ \A t \in KThreads : kjob[t] \in CompareJobs => Owned(owner, kjob[t].loaded)
  /\ \A t \in KThreads : kjob[t] \in SaveJobs =>
       \A j \in 1..Len(kjob[t].save) : Owned(owner, kjob[t].save[j])
IdsOwned == \E owner : AllOwned(owner)

(* The two files of an object differ only while a thread is between them,   *)
(* unless registrations overlapped or one did not end.                      *)
FilesAgree ==
  \A p \in Packages : byPackage[p] # NoObject =>
    /\ byPackage[p].package = p /\ byId[byPackage[p].id] # NoObject
    /\ p \notin overlapped \cup cut =>
         \/ byId[byPackage[p].id] = byPackage[p]
         \/ \E t \in KThreads : kjob[t].at = "save_package" /\ kjob[t].save[1].package = p

KnowledgeInv ==
  /\ KnowledgeType /\ NothingShared /\ SavesSound /\ LoadsSound /\ IdsOwned /\ FilesAgree

(* The objects that are or will be found under their packages, but for one  *)
(* whose parent is still to be saved.                                       *)
InView(object) ==
  /\ object # NoObject
  /\ \/ \E p \in Packages : object = byPackage[p]
     \/ \E t \in KThreads : kjob[t] \in CompareJobs /\ object = kjob[t].loaded
     \/ \E t \in KThreads : kjob[t] \in SaveJobs /\ object = kjob[t].save[1]

(* An older object of another package is listed by the object of its parent. *)
Listed(object) ==
  LET q == object.parent IN
    q \in Packages \ overlapped /\ q # object.package /\ byPackage[q] # NoObject
      /\ byPackage[q].id < object.id => object.package \in byPackage[q].children

(* What a thread does to a package that no other thread is concerned with.  *)
JobListed(t) ==
  /\ kjob[t] \in CompareJobs /\ kjob[t].parent \in Packages \ overlapped =>
       kjob[t].loaded = byPackage[kjob[t].parent]
  /\ kjob[t] \in SaveJobs /\ Len(kjob[t].save) = 2 /\ kjob[t].parent \notin overlapped =>
       /\ byPackage[kjob[t].parent] # NoObject
       /\ byPackage[kjob[t].parent].id = kjob[t].save[1].id
       /\ byPackage[kjob[t].parent].children \subseteq kjob[t].save[1].children
  /\ kjob[t] \in SaveJobs /\ kjob[t].package \notin overlapped =>
       \A object \in Objects :
         InView(object) /\ object.parent = kjob[t].package /\ object.package # kjob[t].package =>
           object.id < kjob[t].save[Len(kjob[t].save)].id

LineageInv ==
  /\ \A object \in Objects : InView(object) => Listed(object)
  /\ \A t \in KThreads : JobListed(t)

-----------------------------------------------------------------------------
LEMMA JobKinds ==
  /\ Idle \notin CompareJobs \cup SaveJobs /\ Idle.at = "idle" /\ Concerns(Idle) = {}
  /\ \A job \in CompareJobs :
       job.at = "compare" /\ job \notin SaveJobs /\ Concerns(job) = {job.package, job.parent} \cap Packages
  /\ \A job \in SaveJobs :
       /\ job.at # "compare" /\ job.at # "idle" /\ job \notin CompareJobs
       /\ Concerns(job) = {job.package, job.parent} \cap Packages
  BY DEF Idle, CompareJobs, SaveJobs, Concerns

LEMMA KindOf ==
  ASSUME KnowledgeType, NEW t \in KThreads
  PROVE  /\ kjob[t].at = "compare" <=> kjob[t] \in CompareJobs
         /\ kjob[t].at \in {"save_id", "save_package"} <=> kjob[t] \in SaveJobs
         /\ kjob[t] = Idle \/ kjob[t] \in CompareJobs \/ kjob[t] \in SaveJobs
<1>1. kjob[t] = Idle \/ kjob[t] \in CompareJobs \/ kjob[t] \in SaveJobs
  BY DEF KnowledgeType
<1>2. \A job \in SaveJobs : job.at \in {"save_id", "save_package"}
  BY DEF SaveJobs
<1> QED
  BY <1>1, <1>2, JobKinds

LEMMA KjobAt ==
  ASSUME KnowledgeType, NEW t \in KThreads, NEW next, kjob' = [kjob EXCEPT ![t] = next]
  PROVE  kjob'[t] = next /\ \A u \in KThreads \ {t} : kjob'[u] = kjob[u]
  BY DEF KnowledgeType

LEMMA ComparingFinite ==
  /\ IsFiniteSet(Comparing) /\ Cardinality(Comparing) \in Nat
  /\ \A S \in SUBSET Comparing : Cardinality(S) \in Nat /\ Cardinality(S) <= Cardinality(Comparing)
<1>1. Comparing \subseteq KThreads
  BY DEF Comparing
<1>2. IsFiniteSet(Comparing)
  BY <1>1, FS_Subset, KnowledgeAssumption
<1>3. \A S \in SUBSET Comparing : IsFiniteSet(S) /\ Cardinality(S) <= Cardinality(Comparing)
  BY <1>2, FS_Subset
<1> QED
  BY <1>2, <1>3, FS_CardinalityType

(* What a thread saves next, and what it does after.                        *)
LEMMA NextSave ==
  ASSUME KnowledgeInv, NEW t \in KThreads, kjob[t] \in SaveJobs
  PROVE  LET save == kjob[t].save IN
         /\ save \in Seq(Objects) /\ Len(save) \in {1, 2} /\ Head(save) = save[1]
         /\ save[1] \in Objects /\ save[1] # NoObject /\ save[1].id \in 1..MaxObjects
         /\ save[1].package \in Packages /\ save[1].package \in Concerns(kjob[t])
         /\ save[Len(save)] \in Objects /\ save[Len(save)].package = kjob[t].package
         /\ save[Len(save)].parent = kjob[t].parent
<1> DEFINE save == kjob[t].save
<1>1. save \in Seq(Objects) /\ Len(save) \in {1, 2}
  BY DEF KnowledgeInv, SavesSound, SaveJobs
<1>2. /\ save[Len(save)].package = kjob[t].package /\ save[Len(save)].parent = kjob[t].parent
      /\ Len(save) = 2 => save[1].package = kjob[t].parent
  BY DEF KnowledgeInv, SavesSound
<1>3. save[1] \in Objects /\ save[Len(save)] \in Objects /\ Head(save) = save[1]
  BY <1>1
<1>4. save[1].package \in Packages /\ save[1].id \in 1..MaxObjects /\ save[1] # NoObject
  BY <1>3, KnowledgeAssumption DEF Objects
<1>5. save[1].package \in Concerns(kjob[t])
  BY <1>1, <1>2, <1>4, JobKinds
<1> QED
  BY <1>1, <1>2, <1>3, <1>4, <1>5

(* Objects of two packages have two ids.                                    *)
LEMMA IdsApart ==
  ASSUME KnowledgeInv, NEW t \in KThreads, kjob[t] \in SaveJobs
  PROVE  /\ \A p \in Packages : byPackage[p] # NoObject /\ byPackage[p].id = kjob[t].save[1].id =>
              p = kjob[t].save[1].package
         /\ \A u \in KThreads : kjob[u] \in SaveJobs /\ kjob[u].save[1].id = kjob[t].save[1].id =>
              kjob[u].save[1].package = kjob[t].save[1].package
<1>1. PICK owner : AllOwned(owner)
  BY DEF KnowledgeInv, IdsOwned
<1>2. \A u \in KThreads : kjob[u] \in SaveJobs =>
        owner[kjob[u].save[1].id] = kjob[u].save[1].package
  <2> SUFFICES ASSUME NEW u \in KThreads, kjob[u] \in SaveJobs
               PROVE  owner[kjob[u].save[1].id] = kjob[u].save[1].package
    OBVIOUS
  <2>1. 1 \in 1..Len(kjob[u].save) /\ kjob[u].save[1] # NoObject
    BY NextSave
  <2> QED
    BY <1>1, <2>1 DEF AllOwned, Owned
<1>3. \A p \in Packages : byPackage[p] # NoObject => owner[byPackage[p].id] = p
  BY <1>1 DEF AllOwned, Owned, KnowledgeInv, FilesAgree
<1> QED
  BY <1>2, <1>3

-----------------------------------------------------------------------------
LEMMA KnowledgeInitInv == ASSUME KnowledgeInit PROVE KnowledgeInv
<1>1. Comparing = {}
  BY JobKinds DEF KnowledgeInit, Comparing
<1>2. Cardinality(Comparing) = 0
  BY <1>1, FS_EmptySet
<1>3. KnowledgeType
  BY <1>2, KnowledgeAssumption DEF KnowledgeInit, KnowledgeType
<1>4. \A t \in KThreads : kjob[t] \notin CompareJobs /\ kjob[t] \notin SaveJobs /\ Concerns(kjob[t]) = {}
  BY JobKinds DEF KnowledgeInit
<1>5. NothingShared /\ SavesSound /\ LoadsSound
  BY <1>4 DEF NothingShared, SavesSound, LoadsSound
<1>6. \A p \in Packages : byPackage[p] = NoObject
  BY DEF KnowledgeInit
<1>7. FilesAgree
  BY <1>6 DEF FilesAgree
<1>8. IdsOwned
  BY <1>4, <1>6 DEF IdsOwned, AllOwned, Owned
<1> QED
  BY <1>3, <1>5, <1>7, <1>8 DEF KnowledgeInv

(* The steps that end requests: what they left is no longer in progress.    *)
LEMMA EndingKeepsKnowledge ==
  ASSUME KnowledgeInv, kjob' = [t \in KThreads |-> kjob'[t]],
         \A t \in KThreads : kjob'[t] = kjob[t] \/ kjob'[t] = Idle,
         UNCHANGED <<byId, byPackage, made, overlapped>>, cut \subseteq cut',
         \A t \in KThreads : kjob[t].at = "save_package" /\ kjob'[t] # kjob[t] =>
           Concerns(kjob[t]) \subseteq cut'
  PROVE  KnowledgeInv'
<1>1. KnowledgeType'
  <2>1. Comparing' \in SUBSET Comparing
    BY JobKinds DEF Comparing
  <2>2. Cardinality(Comparing)' <= Cardinality(Comparing) /\ Cardinality(Comparing)' \in Nat
    BY <2>1, ComparingFinite
  <2>3. Cardinality(Comparing) \in Nat
    BY ComparingFinite
  <2>4. made' + Cardinality(Comparing)' <= MaxObjects
    BY <2>2, <2>3, KnowledgeAssumption DEF KnowledgeInv, KnowledgeType
  <2> QED
    BY <2>4 DEF KnowledgeInv, KnowledgeType
<1>2. \A t \in KThreads : Concerns(kjob'[t]) \subseteq Concerns(kjob[t])
  BY JobKinds
<1>3. NothingShared'
  BY <1>2 DEF KnowledgeInv, NothingShared
<1>4. \A t \in KThreads : kjob'[t] \in CompareJobs \cup SaveJobs => kjob'[t] = kjob[t]
  BY JobKinds
<1>5. SavesSound' /\ LoadsSound'
  BY <1>4 DEF KnowledgeInv, SavesSound, LoadsSound
<1>6. IdsOwned'
  BY <1>4 DEF KnowledgeInv, IdsOwned, AllOwned, Owned
<1>7. FilesAgree'
  <2> SUFFICES ASSUME NEW p \in Packages, byPackage[p] # NoObject, p \notin overlapped \cup cut',
                      byId[byPackage[p].id] # byPackage[p]
               PROVE  \E t \in KThreads : kjob'[t].at = "save_package" /\ kjob'[t].save[1].package = p
    BY DEF KnowledgeInv, FilesAgree
  <2>1. PICK t \in KThreads : kjob[t].at = "save_package" /\ kjob[t].save[1].package = p
    BY DEF KnowledgeInv, FilesAgree
  <2>2. p \in Concerns(kjob[t])
    BY <2>1, KindOf, NextSave DEF KnowledgeInv
  <2>3. kjob'[t] = kjob[t]
    BY <2>1, <2>2
  <2> QED
    BY <2>1, <2>3
<1> QED
  BY <1>1, <1>3, <1>5, <1>6, <1>7 DEF KnowledgeInv

(* register_object compares with the parent's object as it was found.       *)
LEMMA BeginKeepsKnowledge ==
  ASSUME KnowledgeInv, NEW t \in KThreads, NEW p \in Packages,
         NEW parent \in Packages \cup {NoPackage}, BeginObject(t, p, parent)
  PROVE  KnowledgeInv'
<1>1. PICK job : job = [at |-> "compare", package |-> p, parent |-> parent,
                        loaded |-> IF parent = NoPackage THEN NoObject ELSE byPackage[parent]]
  OBVIOUS
<1>2. /\ kjob[t] = Idle /\ made + Cardinality(Comparing) < MaxObjects
      /\ kjob' = [kjob EXCEPT ![t] = job]
      /\ overlapped' = overlapped \cup (Concerns(job) \cap UNION {Concerns(kjob[u]) : u \in KThreads})
      /\ UNCHANGED <<byId, byPackage, made, cut>>
  BY <1>1 DEF BeginObject
<1>3. KnowledgeType
  BY DEF KnowledgeInv
<1>4. job \in CompareJobs /\ job.parent = parent
      /\ job.loaded = (IF parent = NoPackage THEN NoObject ELSE byPackage[parent])
  BY <1>1, <1>3 DEF CompareJobs, KnowledgeType
<1>5. kjob'[t] = job /\ \A u \in KThreads \ {t} : kjob'[u] = kjob[u]
  BY <1>2, <1>3, KjobAt
<1>6. KnowledgeType'
  <2>1. t \notin Comparing /\ Comparing' = Comparing \cup {t}
    BY <1>2, <1>4, <1>5, JobKinds DEF Comparing
  <2>2. Cardinality(Comparing)' = Cardinality(Comparing) + 1 /\ Cardinality(Comparing) \in Nat
    BY <2>1, ComparingFinite, FS_AddElement
  <2>3. made' + Cardinality(Comparing)' <= MaxObjects
    BY <1>2, <1>3, <2>2, KnowledgeAssumption DEF KnowledgeType
  <2> QED
    BY <1>2, <1>3, <1>4, <2>3 DEF KnowledgeType
<1>7. NothingShared'
  <2>1. \A u \in KThreads \ {t} : Concerns(job) \cap Concerns(kjob[u]) \subseteq overlapped'
    BY <1>2
  <2>2. \A u, v \in KThreads \ {t} : u # v => Concerns(kjob[u]) \cap Concerns(kjob[v]) \subseteq overlapped'
    BY <1>2 DEF KnowledgeInv, NothingShared
  <2> QED
    BY <1>5, <2>1, <2>2 DEF NothingShared
<1>8. SavesSound'
  <2>1. overlapped \subseteq overlapped' /\ job \notin SaveJobs
    BY <1>2, <1>4, JobKinds
  <2>2. \A u \in KThreads : kjob'[u] \in SaveJobs => kjob'[u] = kjob[u]
    BY <1>5, <2>1
  <2> QED
    BY <1>2, <2>1, <2>2 DEF KnowledgeInv, SavesSound
<1>9. LoadsSound'
  <2>1. job.loaded # NoObject => job.loaded.package = job.parent
    BY <1>4 DEF KnowledgeInv, FilesAgree
  <2> QED
    BY <1>5, <2>1 DEF KnowledgeInv, LoadsSound
<1>10. IdsOwned'
  <2>1. PICK owner : AllOwned(owner)
    BY DEF KnowledgeInv, IdsOwned
  <2>2. Owned(owner, job.loaded)
    BY <1>4, <2>1 DEF AllOwned, Owned
  <2>3. job \notin SaveJobs
    BY <1>4, JobKinds
  <2>4. AllOwned(owner)'
    BY <1>2, <1>5, <2>1, <2>2, <2>3 DEF AllOwned, Owned
  <2> QED
    BY <2>4 DEF IdsOwned
<1>11. FilesAgree'
  <2>1. \A u \in KThreads : kjob[u].at = "save_package" => kjob'[u] = kjob[u]
    BY <1>2, <1>5, JobKinds
  <2> QED
    BY <1>2, <2>1 DEF KnowledgeInv, FilesAgree
<1> QED
  BY <1>6, <1>7, <1>8, <1>9, <1>10, <1>11 DEF KnowledgeInv

(* What register_object is about to save: the parent's object with the      *)
(* child, unless there is none or it has it; and a new object.              *)
LEMMA MakeHolds ==
  ASSUME KnowledgeInv, NEW t \in KThreads, MakeObject(t)
  PROVE  \E save, own :
           /\ kjob[t] \in CompareJobs /\ made + 1 <= MaxObjects
           /\ own \in Objects /\ own.id = made + 1 /\ own.package = kjob[t].package
           /\ own.parent = kjob[t].parent
           /\ kjob' = [kjob EXCEPT ![t] = [at |-> "save_id", package |-> kjob[t].package,
                                          parent |-> kjob[t].parent, save |-> save]]
           /\ save \in Seq(Objects) /\ save[Len(save)] = own
           /\ \/ /\ Len(save) = 1
                 /\ kjob[t].loaded # NoObject => kjob[t].package \in kjob[t].loaded.children
              \/ /\ Len(save) = 2 /\ kjob[t].loaded # NoObject
                 /\ save[1].id = kjob[t].loaded.id /\ save[1].package = kjob[t].loaded.package
                 /\ save[1].parent = kjob[t].loaded.parent
                 /\ save[1].children = kjob[t].loaded.children \cup {kjob[t].package}
<1> DEFINE job == kjob[t]
           own == Object(made + 1, job.package, job.parent, {})
<1>1. KnowledgeType
  BY DEF KnowledgeInv
<1>2. job \in CompareJobs
  BY <1>1, KindOf DEF MakeObject
<1>3. made + 1 <= MaxObjects /\ made \in Nat
  <2>1. Comparing \ {t} \in SUBSET Comparing /\ t \in Comparing
    BY DEF MakeObject, Comparing
  <2>2. Cardinality(Comparing \ {t}) = Cardinality(Comparing) - 1 /\ Cardinality(Comparing \ {t}) \in Nat
    BY <2>1, ComparingFinite, FS_RemoveElement
  <2>3. Cardinality(Comparing) \in Nat
    BY ComparingFinite
  <2> QED
    BY <1>1, <2>2, <2>3, KnowledgeAssumption DEF KnowledgeType
<1>4. own \in Objects /\ own.id = made + 1 /\ own.package = job.package /\ own.parent = job.parent
  BY <1>2, <1>3, KnowledgeAssumption DEF Object, Objects, CompareJobs
<1>5. kjob' = [kjob EXCEPT ![t] = [at |-> "save_id", package |-> job.package,
                                   parent |-> job.parent, save |-> ToSave(job, own)]]
  BY DEF MakeObject
<1> HIDE DEF own
<1>6. CASE job.loaded # NoObject /\ WithChild(job.loaded, job.package) # job.loaded
  <2>1. PICK listing : listing = WithChild(job.loaded, job.package)
    OBVIOUS
  <2>2. job.loaded \in Objects /\ job.package \in Packages
    BY <1>2, <1>6 DEF CompareJobs
  <2>3. /\ listing \in Objects /\ listing.id = job.loaded.id
        /\ listing.package = job.loaded.package /\ listing.parent = job.loaded.parent
        /\ listing.children = job.loaded.children \cup {job.package}
    BY <2>1, <2>2 DEF WithChild, Objects
  <2>4. PICK save : save = <<listing, own>>
    OBVIOUS
  <2>5. ToSave(job, own) = save
    BY <1>6, <2>1, <2>4 DEF ToSave
  <2>6. save \in Seq(Objects) /\ Len(save) = 2 /\ save[1] = listing /\ save[Len(save)] = own
    BY <1>4, <2>3, <2>4
  <2> QED
    BY <1>2, <1>3, <1>4, <1>5, <1>6, <2>3, <2>5, <2>6
<1>7. CASE ~(job.loaded # NoObject /\ WithChild(job.loaded, job.package) # job.loaded)
  <2>1. PICK save : save = <<own>>
    OBVIOUS
  <2>2. ToSave(job, own) = save
    BY <1>7, <2>1 DEF ToSave
  <2>3. save \in Seq(Objects) /\ Len(save) = 1 /\ save[Len(save)] = own
    BY <1>4, <2>1
  <2>4. job.loaded # NoObject => job.package \in job.loaded.children
    <3> SUFFICES ASSUME job.loaded # NoObject
                 PROVE  job.package \in job.loaded.children
      OBVIOUS
    <3>1. WithChild(job.loaded, job.package) = job.loaded /\ job.loaded \in Objects
      BY <1>2, <1>7 DEF CompareJobs
    <3>2. WithChild(job.loaded, job.package).children = job.loaded.children \cup {job.package}
      BY <3>1 DEF WithChild, Objects
    <3> QED
      BY <3>1, <3>2
  <2> QED
    BY <1>2, <1>3, <1>4, <1>5, <2>2, <2>3, <2>4
<1> QED
  BY <1>6, <1>7
(* The new object has an id of its own.                                     *)
LEMMA MakeKeepsKnowledge ==
  ASSUME KnowledgeInv, NEW t \in KThreads, MakeObject(t)
  PROVE  KnowledgeInv'
<1>1. KnowledgeType
  BY DEF KnowledgeInv
<1>2. PICK job : job = kjob[t]
  OBVIOUS
<1>3. PICK save, own :
        /\ job \in CompareJobs /\ made + 1 <= MaxObjects
        /\ own \in Objects /\ own.id = made + 1 /\ own.package = job.package
        /\ own.parent = job.parent
        /\ kjob' = [kjob EXCEPT ![t] = [at |-> "save_id", package |-> job.package,
                                       parent |-> job.parent, save |-> save]]
        /\ save \in Seq(Objects) /\ save[Len(save)] = own
        /\ \/ /\ Len(save) = 1
              /\ job.loaded # NoObject => job.package \in job.loaded.children
           \/ /\ Len(save) = 2 /\ job.loaded # NoObject
              /\ save[1].id = job.loaded.id /\ save[1].package = job.loaded.package
              /\ save[1].parent = job.loaded.parent
              /\ save[1].children = job.loaded.children \cup {job.package}
  BY <1>2, MakeHolds
<1>4. PICK next : next = [at |-> "save_id", package |-> job.package, parent |-> job.parent, save |-> save]
  OBVIOUS
<1>5. /\ next \in SaveJobs /\ next.at = "save_id" /\ next.save = save
      /\ next.package = job.package /\ next.parent = job.parent
  BY <1>3, <1>4 DEF SaveJobs, CompareJobs
<1>6. kjob' = [kjob EXCEPT ![t] = next]
  BY <1>3, <1>4
<1>7. kjob'[t] = next /\ \A u \in KThreads \ {t} : kjob'[u] = kjob[u]
  BY <1>1, <1>6, KjobAt
<1>8. made' = made + 1 /\ UNCHANGED <<byId, byPackage, overlapped, cut>>
  BY DEF MakeObject
<1>9. next \notin CompareJobs /\ Concerns(next) = Concerns(job) /\ job.at = "compare"
  BY <1>3, <1>5, JobKinds
<1>10. KnowledgeType'
  <2>1. Comparing' = Comparing \ {t} /\ t \in Comparing
    BY <1>2, <1>5, <1>7, <1>9 DEF Comparing
  <2>2. Cardinality(Comparing)' = Cardinality(Comparing) - 1
    BY <2>1, ComparingFinite, FS_RemoveElement
  <2>3. Cardinality(Comparing) \in Nat
    BY ComparingFinite
  <2>4. made' \in Nat /\ made' + Cardinality(Comparing)' <= MaxObjects
    BY <1>1, <1>8, <2>2, <2>3, KnowledgeAssumption DEF KnowledgeType
  <2> QED
    BY <1>1, <1>5, <1>6, <1>8, <2>4 DEF KnowledgeType
<1>11. NothingShared'
  BY <1>2, <1>7, <1>8, <1>9 DEF KnowledgeInv, NothingShared
<1>12. SavesSound'
  <2>1. job.loaded # NoObject => job.loaded.package = job.parent
    BY <1>2, <1>3 DEF KnowledgeInv, LoadsSound
  <2>2. /\ Len(save) \in {1, 2}
        /\ save[Len(save)].package = job.package /\ save[Len(save)].parent = job.parent
        /\ Len(save) = 2 => save[1].package = job.parent /\ job.package \in save[1].children
    <3>1. Len(save) \in {1, 2}
      BY <1>3
    <3>2. save[Len(save)].package = job.package /\ save[Len(save)].parent = job.parent
      BY <1>3
    <3>3. Len(save) = 2 => save[1].package = job.parent /\ job.package \in save[1].children
      BY <1>3, <2>1
    <3> QED
      BY <3>1, <3>2, <3>3
  <2>3. \A u \in KThreads \ {t} : kjob'[u] = kjob[u] /\ overlapped' = overlapped /\ byId' = byId
    BY <1>7, <1>8
  <2> QED
    BY <1>5, <1>7, <2>2, <2>3 DEF KnowledgeInv, SavesSound
<1>13. LoadsSound'
  BY <1>7, <1>9 DEF KnowledgeInv, LoadsSound
<1>14. IdsOwned'
  <2>1. PICK old : AllOwned(old)
    BY DEF KnowledgeInv, IdsOwned
  <2>2. PICK owner : owner = [i \in 1..MaxObjects |-> IF i = made + 1 THEN job.package ELSE old[i]]
    OBVIOUS
  <2>3. owner[made + 1] = job.package /\ \A i \in 1..MaxObjects : i <= made => owner[i] = old[i]
    BY <1>1, <1>3, <2>2 DEF KnowledgeType
  <2>4. \A object \in Objects \cup {NoObject} : Owned(old, object) => Owned(owner, object)'
    <3> SUFFICES ASSUME NEW object \in Objects, object # NoObject, Owned(old, object)
                 PROVE  object.id <= made' /\ owner[object.id] = object.package
      BY DEF Owned
    <3>1. object.id \in 1..MaxObjects /\ object.id <= made /\ old[object.id] = object.package
      BY DEF Owned, Objects
    <3> QED
      BY <1>1, <1>8, <2>3, <3>1 DEF KnowledgeType
  <2>5. \A j \in 1..Len(save) : Owned(owner, save[j])'
    <3>1. Owned(owner, own)'
      BY <1>1, <1>3, <1>8, <2>3 DEF Owned, KnowledgeType
    <3>2. CASE Len(save) = 1
      BY <1>3, <3>1, <3>2
    <3>3. CASE Len(save) = 2
      <4>1. Owned(old, job.loaded) /\ job.loaded \in Objects
        BY <1>2, <1>3, <2>1, <3>3 DEF AllOwned, CompareJobs
      <4>2. Owned(owner, job.loaded)' /\ job.loaded # NoObject
        BY <1>3, <2>4, <3>3, <4>1
      <4>3. Owned(owner, save[1])'
        BY <1>3, <3>3, <4>2 DEF Owned
      <4> QED
        BY <1>3, <3>1, <3>3, <4>3
    <3> QED
      BY <1>3, <3>2, <3>3
  <2>6. \A p \in Packages : Owned(owner, byPackage[p])'
    BY <1>1, <1>8, <2>1, <2>4 DEF AllOwned, KnowledgeType
  <2>7. ASSUME NEW u \in KThreads, kjob'[u] \in CompareJobs
        PROVE  Owned(owner, kjob[u].loaded)'
    <3>1. u # t /\ kjob'[u] = kjob[u]
      BY <1>7, <1>9, <2>7
    <3>2. Owned(old, kjob[u].loaded) /\ kjob[u].loaded \in Objects \cup {NoObject}
      BY <2>1, <2>7, <3>1 DEF AllOwned, CompareJobs
    <3>3. PICK object \in Objects \cup {NoObject} : object = kjob[u].loaded
      BY <3>2
    <3>4. Owned(owner, object)'
      BY <2>4, <3>2, <3>3
    <3> QED
      BY <3>1, <3>3, <3>4
  <2>8. ASSUME NEW u \in KThreads, kjob'[u] \in SaveJobs, NEW j \in 1..Len(kjob'[u].save)
        PROVE  Owned(owner, kjob[u].save[j])'
    <3>1. CASE u = t
      <4>1. kjob'[u].save = save
        BY <1>5, <1>7, <3>1
      <4> QED
        BY <2>5, <2>8, <4>1
    <3>2. CASE u # t
      <4>1. kjob'[u] = kjob[u]
        BY <1>7, <3>2
      <4>2. kjob[u].save[j] \in Objects /\ Owned(old, kjob[u].save[j])
        BY <2>1, <2>8, <4>1 DEF AllOwned, SaveJobs
      <4>3. PICK object \in Objects : object = kjob[u].save[j]
        BY <4>2
      <4>4. Owned(owner, object)'
        BY <2>4, <4>2, <4>3
      <4> QED
        BY <4>1, <4>3, <4>4
    <3> QED
      BY <3>1, <3>2
  <2>9. AllOwned(owner)'
    BY <2>6, <2>7, <2>8 DEF AllOwned
  <2> QED
    BY <2>9 DEF IdsOwned
<1>15. FilesAgree'
  <2>1. \A u \in KThreads : kjob[u].at = "save_package" => kjob'[u] = kjob[u]
    BY <1>2, <1>7, <1>9
  <2> QED
    BY <1>8, <2>1 DEF KnowledgeInv, FilesAgree
<1> QED
  BY <1>10, <1>11, <1>12, <1>13, <1>14, <1>15 DEF KnowledgeInv

(* The file under the id changes first, of an object no other is about to   *)
(* save unless they overlapped.                                             *)
LEMMA SaveByIdKeepsKnowledge ==
  ASSUME KnowledgeInv, NEW t \in KThreads, SaveById(t)
  PROVE  KnowledgeInv'
<1>1. KnowledgeType
  BY DEF KnowledgeInv
<1>2. PICK job : job = kjob[t]
  OBVIOUS
<1>3. job \in SaveJobs /\ job.at = "save_id"
  BY <1>1, <1>2, KindOf DEF SaveById
<1>4. PICK o \in Objects : o = job.save[1]
  BY <1>2, <1>3, NextSave
<1>5. /\ o # NoObject /\ o.id \in 1..MaxObjects /\ o.package \in Concerns(job) /\ Head(job.save) = o
      /\ o.package \in Packages
  BY <1>2, <1>3, <1>4, NextSave
<1>6. PICK next : next = [job EXCEPT !.at = "save_package"]
  OBVIOUS
<1>7. /\ next \in SaveJobs /\ next.at = "save_package" /\ next.save = job.save
      /\ next.package = job.package /\ next.parent = job.parent
  BY <1>3, <1>6 DEF SaveJobs
<1>8. /\ kjob' = [kjob EXCEPT ![t] = next] /\ byId' = [byId EXCEPT ![o.id] = o]
      /\ UNCHANGED <<byPackage, made, overlapped, cut>>
  BY <1>2, <1>5, <1>6 DEF SaveById
<1>9. kjob'[t] = next /\ \A u \in KThreads \ {t} : kjob'[u] = kjob[u]
  BY <1>1, <1>8, KjobAt
<1>10. next \notin CompareJobs /\ job \notin CompareJobs /\ Concerns(next) = Concerns(job)
       /\ next.at # "compare" /\ job.at # "compare"
  BY <1>3, <1>7, JobKinds
<1>11. byId'[o.id] = o /\ \A i \in 1..MaxObjects : i # o.id => byId'[i] = byId[i]
  BY <1>1, <1>5, <1>8 DEF KnowledgeType
<1>12. KnowledgeType'
  <2>1. Comparing' = Comparing
    BY <1>2, <1>9, <1>10 DEF Comparing
  <2> QED
    BY <1>1, <1>7, <1>8, <2>1 DEF KnowledgeType
<1>13. NothingShared'
  BY <1>2, <1>8, <1>9, <1>10 DEF KnowledgeInv, NothingShared
<1>14. LoadsSound'
  BY <1>9, <1>10 DEF KnowledgeInv, LoadsSound
<1>15. IdsOwned'
  <2>1. PICK owner : AllOwned(owner)
    BY DEF KnowledgeInv, IdsOwned
  <2>2. \A j \in 1..Len(job.save) : Owned(owner, job.save[j])
    BY <1>2, <1>3, <2>1 DEF AllOwned
  <2>3. AllOwned(owner)'
    BY <1>7, <1>8, <1>9, <1>10, <2>1, <2>2 DEF AllOwned, Owned
  <2> QED
    BY <2>3 DEF IdsOwned
<1>16. SavesSound'
  <2>1. ASSUME NEW u \in KThreads \ {t}, kjob[u] \in SaveJobs, kjob[u].at = "save_package"
        PROVE  /\ byId'[kjob[u].save[1].id] # NoObject
               /\ kjob[u].save[1].package \notin overlapped => byId'[kjob[u].save[1].id] = kjob[u].save[1]
    <3>1. kjob[u].save[1].id \in 1..MaxObjects /\ kjob[u].save[1].package \in Concerns(kjob[u])
      BY <2>1, NextSave
    <3>2. CASE kjob[u].save[1].id = o.id
      <4>1. kjob[u].save[1].package = o.package
        BY <1>2, <1>3, <1>4, <2>1, <3>2, IdsApart
      <4>2. o.package \in overlapped
        BY <1>2, <1>5, <3>1, <4>1 DEF KnowledgeInv, NothingShared
      <4> QED
        BY <1>5, <1>11, <3>2, <4>1, <4>2
    <3>3. CASE kjob[u].save[1].id # o.id
      BY <1>11, <2>1, <3>1, <3>3 DEF KnowledgeInv, SavesSound
    <3> QED
      BY <3>2, <3>3
  <2>2. /\ Len(next.save) \in {1, 2}
        /\ next.save[Len(next.save)].package = next.package
        /\ next.save[Len(next.save)].parent = next.parent
        /\ Len(next.save) = 2 => next.save[1].package = next.parent /\ next.package \in next.save[1].children
    BY <1>2, <1>3, <1>7 DEF KnowledgeInv, SavesSound
  <2>3. byId'[next.save[1].id] = next.save[1] /\ next.save[1] # NoObject
    BY <1>4, <1>5, <1>7, <1>11
  <2>4. overlapped' = overlapped
    BY <1>8
  <2> QED
    BY <1>9, <2>1, <2>2, <2>3, <2>4 DEF KnowledgeInv, SavesSound
<1>17. FilesAgree'
  <2> SUFFICES ASSUME NEW p \in Packages, byPackage[p] # NoObject
               PROVE  /\ byPackage[p].package = p /\ byId'[byPackage[p].id] # NoObject
                      /\ p \notin overlapped \cup cut =>
                           \/ byId'[byPackage[p].id] = byPackage[p]
                           \/ \E u \in KThreads : kjob'[u].at = "save_package" /\ kjob'[u].save[1].package = p
    BY <1>8 DEF FilesAgree
  <2>1. /\ byPackage[p].package = p /\ byPackage[p].id \in 1..MaxObjects
        /\ byId[byPackage[p].id] # NoObject
    BY <1>1 DEF KnowledgeInv, FilesAgree, KnowledgeType, Objects
  <2>2. CASE o.package = p
    BY <1>4, <1>5, <1>7, <1>9, <1>11, <2>1, <2>2
  <2>3. CASE o.package # p
    <3>1. byPackage[p].id # o.id
      BY <1>2, <1>3, <1>4, <2>3, IdsApart
    <3>2. byId'[byPackage[p].id] = byId[byPackage[p].id]
      BY <1>11, <2>1, <3>1
    <3>3. \A u \in KThreads : kjob[u].at = "save_package" => kjob'[u] = kjob[u]
      BY <1>2, <1>3, <1>9
    <3> QED
      BY <2>1, <3>2, <3>3 DEF KnowledgeInv, FilesAgree
  <2> QED
    BY <2>2, <2>3
<1> QED
  BY <1>12, <1>13, <1>14, <1>15, <1>16, <1>17 DEF KnowledgeInv

(* What a thread does after the file under the package.                     *)
LEMMA AfterSaved ==
  ASSUME KnowledgeInv, NEW t \in KThreads, NEW job, job = kjob[t], job \in SaveJobs
  PROVE  \/ Len(job.save) = 1 /\ Saved(job) = Idle
         \/ /\ Len(job.save) = 2 /\ Saved(job) \in SaveJobs /\ Saved(job).at = "save_id"
            /\ Saved(job).package = job.package /\ Saved(job).parent = job.parent
            /\ Len(Saved(job).save) = 1 /\ Saved(job).save[1] = job.save[2]
<1>1. job.save \in Seq(Objects) /\ Len(job.save) \in {1, 2}
  BY NextSave
<1>2. CASE Len(job.save) = 1
  BY <1>2 DEF Saved
<1>3. CASE Len(job.save) = 2
  <2>1. PICK rest : rest = Tail(job.save)
    OBVIOUS
  <2>2. rest \in Seq(Objects) /\ Len(rest) = 1 /\ rest[1] = job.save[2]
    BY <1>1, <1>3, <2>1
  <2>3. Saved(job) = [job EXCEPT !.at = "save_id", !.save = rest]
    BY <1>3, <2>1 DEF Saved
  <2>4. /\ Saved(job) \in SaveJobs /\ Saved(job).at = "save_id" /\ Saved(job).save = rest
        /\ Saved(job).package = job.package /\ Saved(job).parent = job.parent
    BY <2>2, <2>3 DEF SaveJobs
  <2> QED
    BY <1>3, <2>2, <2>4
<1> QED
  BY <1>1, <1>2, <1>3

(* The file under the package follows the one under the id.                 *)
LEMMA SaveByPackageKeepsKnowledge ==
  ASSUME KnowledgeInv, NEW t \in KThreads, SaveByPackage(t)
  PROVE  KnowledgeInv'
<1>1. KnowledgeType
  BY DEF KnowledgeInv
<1>2. PICK job : job = kjob[t]
  OBVIOUS
<1>3. job \in SaveJobs /\ job.at = "save_package"
  BY <1>1, <1>2, KindOf DEF SaveByPackage
<1>4. PICK o \in Objects : o = job.save[1]
  BY <1>2, <1>3, NextSave
<1>5. /\ o # NoObject /\ o.package \in Concerns(job) /\ Head(job.save) = o
      /\ o.package \in Packages
  BY <1>2, <1>3, <1>4, NextSave
<1>6. PICK next : next = Saved(job)
  OBVIOUS
<1>7. \/ next = Idle
      \/ /\ Len(job.save) = 2 /\ next \in SaveJobs /\ next.at = "save_id"
         /\ next.package = job.package /\ next.parent = job.parent
         /\ Len(next.save) = 1 /\ next.save[1] = job.save[2]
  BY <1>2, <1>3, <1>6, AfterSaved
<1>8. /\ kjob' = [kjob EXCEPT ![t] = next] /\ byPackage' = [byPackage EXCEPT ![o.package] = o]
      /\ UNCHANGED <<byId, made, overlapped, cut>>
  BY <1>2, <1>5, <1>6 DEF SaveByPackage
<1>9. kjob'[t] = next /\ \A u \in KThreads \ {t} : kjob'[u] = kjob[u]
  BY <1>1, <1>8, KjobAt
<1>10. /\ next \notin CompareJobs /\ Concerns(next) \subseteq Concerns(job)
       /\ next.at # "compare" /\ next.at # "save_package" /\ job.at # "compare"
  BY <1>3, <1>7, JobKinds
<1>11. byPackage'[o.package] = o /\ \A p \in Packages : p # o.package => byPackage'[p] = byPackage[p]
  BY <1>1, <1>5, <1>8 DEF KnowledgeType
<1>12. KnowledgeType'
  <2>1. Comparing' = Comparing
    BY <1>2, <1>9, <1>10 DEF Comparing
  <2>2. next \in {Idle} \cup CompareJobs \cup SaveJobs
    BY <1>7
  <2> QED
    BY <1>1, <1>8, <2>1, <2>2 DEF KnowledgeType
<1>13. NothingShared'
  BY <1>2, <1>8, <1>9, <1>10 DEF KnowledgeInv, NothingShared
<1>14. LoadsSound'
  BY <1>9, <1>10 DEF KnowledgeInv, LoadsSound
<1>15. SavesSound'
  <2>1. next \in SaveJobs =>
          /\ Len(next.save) = 1 /\ next.at # "save_package"
          /\ next.save[1].package = next.package /\ next.save[1].parent = next.parent
    BY <1>2, <1>3, <1>7, <1>10, NextSave, JobKinds
  <2> QED
    BY <1>8, <1>9, <2>1 DEF KnowledgeInv, SavesSound
<1>16. IdsOwned'
  <2>1. PICK owner : AllOwned(owner)
    BY DEF KnowledgeInv, IdsOwned
  <2>2. \A j \in 1..Len(job.save) : Owned(owner, job.save[j])
    BY <1>2, <1>3, <2>1 DEF AllOwned
  <2>3. Owned(owner, o)
    <3>1. Len(job.save) \in {1, 2}
      BY <1>2, <1>3, NextSave
    <3> QED
      BY <1>4, <2>2, <3>1
  <2>4. next \in SaveJobs => \A j \in 1..Len(next.save) : Owned(owner, next.save[j])
    BY <1>7, <2>2, JobKinds
  <2>5. AllOwned(owner)'
    BY <1>8, <1>9, <1>10, <1>11, <2>1, <2>3, <2>4 DEF AllOwned, Owned
  <2> QED
    BY <2>5 DEF IdsOwned
<1>17. FilesAgree'
  <2> SUFFICES ASSUME NEW p \in Packages, byPackage'[p] # NoObject
               PROVE  /\ byPackage'[p].package = p /\ byId[byPackage'[p].id] # NoObject
                      /\ p \notin overlapped \cup cut =>
                           \/ byId[byPackage'[p].id] = byPackage'[p]
                           \/ \E u \in KThreads : kjob'[u].at = "save_package" /\ kjob'[u].save[1].package = p
    BY <1>8 DEF FilesAgree
  <2>1. CASE p = o.package
    BY <1>2, <1>3, <1>4, <1>11, <2>1 DEF KnowledgeInv, SavesSound
  <2>2. CASE p # o.package
    <3>1. byPackage'[p] = byPackage[p]
      BY <1>11, <2>2
    <3>2. \A u \in KThreads : kjob[u].at = "save_package" /\ kjob[u].save[1].package = p => kjob'[u] = kjob[u]
      BY <1>2, <1>4, <1>9, <2>2
    <3> QED
      BY <3>1, <3>2 DEF KnowledgeInv, FilesAgree
  <2> QED
    BY <2>1, <2>2
<1> QED
  BY <1>12, <1>13, <1>14, <1>15, <1>16, <1>17 DEF KnowledgeInv

LEMMA EndsKnowledge ==
  ASSUME KnowledgeInv, KnowledgeCrash \/ \E t \in KThreads : RefuseObject(t) \/ ObjectSaveFails(t)
  PROVE  /\ kjob' = [t \in KThreads |-> kjob'[t]]
         /\ \A t \in KThreads : kjob'[t] = kjob[t] \/ kjob'[t] = Idle
         /\ UNCHANGED <<byId, byPackage, made, overlapped>> /\ cut \subseteq cut'
         /\ \A t \in KThreads : kjob[t].at = "save_package" /\ kjob'[t] # kjob[t] =>
              Concerns(kjob[t]) \subseteq cut'
<1>1. KnowledgeType
  BY DEF KnowledgeInv
<1>2. CASE KnowledgeCrash
  BY <1>2 DEF KnowledgeCrash
<1>3. ASSUME NEW t \in KThreads, RefuseObject(t) \/ ObjectSaveFails(t)
      PROVE  /\ kjob' = [u \in KThreads |-> kjob'[u]]
             /\ \A u \in KThreads : kjob'[u] = kjob[u] \/ kjob'[u] = Idle
             /\ UNCHANGED <<byId, byPackage, made, overlapped>> /\ cut \subseteq cut'
             /\ \A u \in KThreads : kjob[u].at = "save_package" /\ kjob'[u] # kjob[u] =>
                  Concerns(kjob[u]) \subseteq cut'
  <2>1. /\ kjob' = [kjob EXCEPT ![t] = Idle]
        /\ UNCHANGED <<byId, byPackage, made, overlapped>> /\ cut \subseteq cut'
        /\ kjob[t].at = "save_package" => Concerns(kjob[t]) \subseteq cut'
    BY <1>3 DEF RefuseObject, ObjectSaveFails
  <2>2. kjob'[t] = Idle /\ \A u \in KThreads \ {t} : kjob'[u] = kjob[u]
    BY <1>1, <2>1, KjobAt
  <2>3. kjob' = [u \in KThreads |-> kjob'[u]]
    BY <1>1, <2>1 DEF KnowledgeType
  <2> QED
    BY <2>1, <2>2, <2>3
<1> QED
  BY <1>2, <1>3

LEMMA KnowledgeStepKeeps ==
  ASSUME KnowledgeInv, KnowledgeCrash \/ \E t \in KThreads : KnowledgeStep(t)
  PROVE  KnowledgeInv'
<1>1. ASSUME NEW t \in KThreads, NEW p \in Packages, NEW parent \in Packages \cup {NoPackage},
             BeginObject(t, p, parent)
      PROVE  KnowledgeInv'
  BY <1>1, BeginKeepsKnowledge
<1>2. ASSUME NEW t \in KThreads, MakeObject(t) PROVE KnowledgeInv'
  BY <1>2, MakeKeepsKnowledge
<1>3. ASSUME NEW t \in KThreads, SaveById(t) PROVE KnowledgeInv'
  BY <1>3, SaveByIdKeepsKnowledge
<1>4. ASSUME NEW t \in KThreads, SaveByPackage(t) PROVE KnowledgeInv'
  BY <1>4, SaveByPackageKeepsKnowledge
<1>5. CASE KnowledgeCrash \/ \E t \in KThreads : RefuseObject(t) \/ ObjectSaveFails(t)
  BY <1>5, EndsKnowledge, EndingKeepsKnowledge
<1> QED
  BY <1>1, <1>2, <1>3, <1>4, <1>5 DEF KnowledgeStep
-----------------------------------------------------------------------------
LEMMA ViewKnown ==
  ASSUME KnowledgeInv, NEW x, InView(x)
  PROVE  x \in Objects /\ x.id \in Nat /\ x.id <= made /\ x.package \in Packages
<1>1. PICK owner : AllOwned(owner)
  BY DEF KnowledgeInv, IdsOwned
<1>2. x \in Objects
  BY NextSave DEF InView, KnowledgeInv, KnowledgeType, CompareJobs
<1>3. \A t \in KThreads : kjob[t] \in SaveJobs => 1 \in 1..Len(kjob[t].save)
  BY NextSave
<1>4. Owned(owner, x)
  BY <1>1, <1>3 DEF InView, AllOwned
<1> QED
  BY <1>2, <1>4 DEF Owned, InView, Objects

(* A thread that goes on holds what it held.                                *)
LEMMA HeldInView ==
  ASSUME NEW t \in KThreads
  PROVE  /\ kjob[t] \in CompareJobs /\ kjob[t].loaded # NoObject => InView(kjob[t].loaded)
         /\ KnowledgeInv /\ kjob[t] \in SaveJobs => InView(kjob[t].save[1])
<1>1. ASSUME kjob[t] \in CompareJobs, kjob[t].loaded # NoObject
      PROVE  InView(kjob[t].loaded)
  BY <1>1 DEF InView
<1>2. ASSUME KnowledgeInv, kjob[t] \in SaveJobs
      PROVE  InView(kjob[t].save[1])
  BY <1>2, NextSave DEF InView
<1> QED
  BY <1>1, <1>2

(* Requests that end take objects out of view, and change no lists.         *)
LEMMA EndingKeepsLineage ==
  ASSUME KnowledgeInv, LineageInv,
         \A t \in KThreads : kjob'[t] = kjob[t] \/ kjob'[t] = Idle,
         UNCHANGED <<byPackage, overlapped>>
  PROVE  LineageInv'
<1>1. \A t \in KThreads : kjob'[t] \in CompareJobs \cup SaveJobs => kjob'[t] = kjob[t]
  BY JobKinds
<1>2. \A x : InView(x)' => InView(x)
  BY <1>1 DEF InView
<1>3. \A x \in Objects : InView(x)' => Listed(x)'
  BY <1>2 DEF LineageInv, Listed
<1>4. ASSUME NEW t \in KThreads PROVE JobListed(t)'
  <2>1. JobListed(t)
    BY DEF LineageInv
  <2> QED
    BY <1>1, <1>2, <2>1 DEF JobListed
<1> QED
  BY <1>3, <1>4 DEF LineageInv

LEMMA BeginKeepsLineage ==
  ASSUME KnowledgeInv, LineageInv, NEW t \in KThreads, NEW p \in Packages,
         NEW parent \in Packages \cup {NoPackage}, BeginObject(t, p, parent)
  PROVE  LineageInv'
<1>1. PICK job : job = [at |-> "compare", package |-> p, parent |-> parent,
                        loaded |-> IF parent = NoPackage THEN NoObject ELSE byPackage[parent]]
  OBVIOUS
<1>2. /\ kjob' = [kjob EXCEPT ![t] = job] /\ overlapped \subseteq overlapped'
      /\ UNCHANGED byPackage
  BY <1>1 DEF BeginObject
<1>3. KnowledgeType
  BY DEF KnowledgeInv
<1>4. job \in CompareJobs /\ job \notin SaveJobs /\ job.parent = parent
      /\ job.loaded = (IF parent = NoPackage THEN NoObject ELSE byPackage[parent])
  BY <1>1, <1>3, JobKinds DEF CompareJobs, KnowledgeType
<1>5. kjob'[t] = job /\ \A u \in KThreads \ {t} : kjob'[u] = kjob[u]
  BY <1>2, <1>3, KjobAt
<1>6. \A x : InView(x)' => InView(x)
  BY <1>2, <1>4, <1>5 DEF InView
<1>7. \A x \in Objects : InView(x)' => Listed(x)'
  BY <1>2, <1>6 DEF LineageInv, Listed
<1>8. JobListed(t)'
  <2>1. parent \in Packages => job.loaded = byPackage[parent]
    BY <1>4, KnowledgeAssumption
  <2> QED
    BY <1>2, <1>4, <1>5, <2>1 DEF JobListed
<1>9. ASSUME NEW u \in KThreads \ {t} PROVE JobListed(u)'
  <2>1. JobListed(u)
    BY DEF LineageInv
  <2> QED
    BY <1>2, <1>5, <1>6, <2>1 DEF JobListed
<1> QED
  BY <1>7, <1>8, <1>9 DEF LineageInv

LEMMA SaveByIdKeepsLineage ==
  ASSUME KnowledgeInv, LineageInv, NEW t \in KThreads, SaveById(t)
  PROVE  LineageInv'
<1>1. KnowledgeType
  BY DEF KnowledgeInv
<1>2. kjob[t] \in SaveJobs
  BY <1>1, KindOf DEF SaveById
<1>3. PICK next : next = [kjob[t] EXCEPT !.at = "save_package"]
  OBVIOUS
<1>4. /\ next \in SaveJobs /\ next \notin CompareJobs /\ next.save = kjob[t].save
      /\ next.package = kjob[t].package /\ next.parent = kjob[t].parent
  BY <1>2, <1>3, JobKinds DEF SaveJobs
<1>5. kjob' = [kjob EXCEPT ![t] = next] /\ UNCHANGED <<byPackage, overlapped>>
  BY <1>3 DEF SaveById
<1>6. kjob'[t] = next /\ \A u \in KThreads \ {t} : kjob'[u] = kjob[u]
  BY <1>1, <1>5, KjobAt
<1>7. \A x : InView(x)' => InView(x)
  BY <1>2, <1>4, <1>5, <1>6 DEF InView
<1>8. \A x \in Objects : InView(x)' => Listed(x)'
  BY <1>5, <1>7 DEF LineageInv, Listed
<1>9. JobListed(t)'
  <2>1. JobListed(t)
    BY DEF LineageInv
  <2> QED
    BY <1>2, <1>4, <1>5, <1>6, <1>7, <2>1 DEF JobListed
<1>10. ASSUME NEW u \in KThreads \ {t} PROVE JobListed(u)'
  <2>1. JobListed(u)
    BY DEF LineageInv
  <2> QED
    BY <1>5, <1>6, <1>7, <2>1 DEF JobListed
<1> QED
  BY <1>8, <1>9, <1>10 DEF LineageInv

(* A new object comes after every one in view; the list it is added to is   *)
(* the stored one unless registrations overlapped.                          *)
LEMMA MakeKeepsLineage ==
  ASSUME KnowledgeInv, LineageInv, NEW t \in KThreads, MakeObject(t)
  PROVE  LineageInv'
<1>1. KnowledgeType
  BY DEF KnowledgeInv
<1>2. PICK job : job = kjob[t]
  OBVIOUS
<1>3. PICK save, own :
        /\ job \in CompareJobs /\ made + 1 <= MaxObjects
        /\ own \in Objects /\ own.id = made + 1 /\ own.package = job.package
        /\ own.parent = job.parent
        /\ kjob' = [kjob EXCEPT ![t] = [at |-> "save_id", package |-> job.package,
                                       parent |-> job.parent, save |-> save]]
        /\ save \in Seq(Objects) /\ save[Len(save)] = own
        /\ \/ /\ Len(save) = 1
              /\ job.loaded # NoObject => job.package \in job.loaded.children
           \/ /\ Len(save) = 2 /\ job.loaded # NoObject
              /\ save[1].id = job.loaded.id /\ save[1].package = job.loaded.package
              /\ save[1].parent = job.loaded.parent
              /\ save[1].children = job.loaded.children \cup {job.package}
  BY <1>2, MakeHolds
<1>4. PICK next : next = [at |-> "save_id", package |-> job.package, parent |-> job.parent, save |-> save]
  OBVIOUS
<1>5. /\ next \in SaveJobs /\ next \notin CompareJobs /\ next.save = save
      /\ next.package = job.package /\ next.parent = job.parent
  <2>1. next \in SaveJobs
    BY <1>3, <1>4 DEF SaveJobs, CompareJobs
  <2> QED
    BY <1>4, <2>1, JobKinds
<1>6. kjob' = [kjob EXCEPT ![t] = next] /\ UNCHANGED <<byPackage, overlapped>>
  BY <1>3, <1>4 DEF MakeObject
<1>7. kjob'[t] = next /\ \A u \in KThreads \ {t} : kjob'[u] = kjob[u]
  BY <1>1, <1>6, KjobAt
<1>8. \A x : InView(x)' => InView(x) \/ x = save[1]
  BY <1>5, <1>6, <1>7 DEF InView
<1>9. job.loaded # NoObject =>
        /\ InView(job.loaded) /\ job.loaded \in Objects /\ Listed(job.loaded) /\ job.loaded.id <= made
        /\ job.loaded.package = job.parent /\ job.parent \in Packages
  <2>1. job.loaded # NoObject => InView(job.loaded) /\ job.loaded.package = job.parent
    BY <1>2, <1>3, HeldInView DEF KnowledgeInv, LoadsSound
  <2> QED
    BY <2>1, ViewKnown DEF LineageInv
<1>10. JobListed(t) /\ made \in Nat
  BY <1>1 DEF LineageInv, KnowledgeType
<1>11. job.parent \in Packages \ overlapped => job.loaded = byPackage[job.parent]
  BY <1>2, <1>3, <1>10 DEF JobListed
<1>12. CASE Len(save) = 1
  <2>1. save[1] = own /\ (job.loaded # NoObject => job.package \in job.loaded.children)
    BY <1>3, <1>12
  <2>2. Listed(own)'
    BY <1>3, <1>6, <1>11, <2>1 DEF Listed
  <2>3. \A x \in Objects : InView(x)' => Listed(x)'
    BY <1>6, <1>8, <2>1, <2>2 DEF LineageInv, Listed
  <2>4. JobListed(t)'
    <3>1. \A x \in Objects : InView(x)' /\ x.package # job.package => x.id < own.id
      BY <1>3, <1>8, <1>10, <2>1, ViewKnown
    <3>2. Len(next.save) = 1 /\ next.save[Len(next.save)] = own
      BY <1>3, <1>5, <1>12
    <3> QED
      <4>1. /\ kjob'[t] \notin CompareJobs /\ Len(kjob'[t].save) # 2
            /\ kjob'[t].save[Len(kjob'[t].save)] = own /\ kjob'[t].package = job.package
        <5>1. Len(next.save) # 2
          BY <3>2
        <5>2. next \notin CompareJobs /\ next.package = job.package
          BY <1>5
        <5> QED
          BY <1>7, <3>2, <5>1, <5>2, Zenon
      <4>2. \A x \in Objects : InView(x)' /\ x.package # kjob'[t].package =>
              x.id < kjob'[t].save[Len(kjob'[t].save)].id
        BY <3>1, <4>1
      <4> QED
        BY <4>1, <4>2 DEF JobListed
  <2>5. ASSUME NEW u \in KThreads \ {t} PROVE JobListed(u)'
    <3>1. JobListed(u)
      BY DEF LineageInv
    <3>2. kjob[u] \in SaveJobs /\ kjob[u].package \notin overlapped => own.parent # kjob[u].package
      <4> SUFFICES ASSUME kjob[u] \in SaveJobs, own.parent = kjob[u].package
                   PROVE  kjob[u].package \in overlapped
        OBVIOUS
      <4>1. kjob[u].package \in Packages /\ job.parent = kjob[u].package
        BY <1>3 DEF SaveJobs
      <4>2. kjob[u].package \in Concerns(kjob[u])
        BY <4>1, JobKinds
      <4>3. kjob[u].package \in Concerns(job)
        BY <1>3, <4>1, JobKinds
      <4> QED
        BY <1>2, <4>2, <4>3 DEF KnowledgeInv, NothingShared
    <3> QED
      BY <1>6, <1>7, <1>8, <2>1, <3>1, <3>2 DEF JobListed
  <2> QED
    BY <2>3, <2>4, <2>5 DEF LineageInv
<1>13. CASE Len(save) = 2 /\ job.loaded # NoObject
  <2>1. PICK o : o = save[1]
    OBVIOUS
  <2>2. /\ o.id = job.loaded.id /\ o.package = job.loaded.package /\ o.parent = job.loaded.parent
        /\ o.children = job.loaded.children \cup {job.package}
    BY <1>3, <1>13, <2>1
  <2>3. Listed(o)'
    BY <1>6, <1>9, <1>13, <2>2 DEF Listed
  <2>4. \A x \in Objects : InView(x)' => Listed(x)'
    BY <1>6, <1>8, <2>1, <2>3 DEF LineageInv, Listed
  <2>5. JobListed(t)'
    <3>1. \A x \in Objects : InView(x)' => x.id < own.id
      BY <1>3, <1>8, <1>9, <1>10, <1>13, <2>1, <2>2, ViewKnown
    <3>2. job.parent \notin overlapped =>
            /\ byPackage[job.parent] # NoObject /\ byPackage[job.parent].id = o.id
            /\ byPackage[job.parent].children \subseteq o.children
      BY <1>9, <1>11, <1>13, <2>2
    <3> QED
      BY <1>3, <1>5, <1>6, <1>7, <2>1, <3>1, <3>2 DEF JobListed
  <2>6. ASSUME NEW u \in KThreads \ {t} PROVE JobListed(u)'
    <3>1. JobListed(u)
      BY DEF LineageInv
    <3> QED
      BY <1>6, <1>7, <1>8, <1>9, <1>13, <2>1, <2>2, <3>1 DEF JobListed
  <2> QED
    BY <2>4, <2>5, <2>6 DEF LineageInv
<1> QED
  BY <1>3, <1>12, <1>13

(* The list of the parent is stored before the child that refers to it.     *)
LEMMA SaveByPackageKeepsLineage ==
  ASSUME KnowledgeInv, LineageInv, NEW t \in KThreads, SaveByPackage(t)
  PROVE  LineageInv'
<1>1. KnowledgeType
  BY DEF KnowledgeInv
<1>2. PICK job : job = kjob[t]
  OBVIOUS
<1>3. job \in SaveJobs
  BY <1>1, <1>2, KindOf DEF SaveByPackage
<1>4. PICK o \in Objects : o = job.save[1]
  BY <1>2, <1>3, NextSave
<1>5. /\ o # NoObject /\ o.package \in Concerns(job) /\ Head(job.save) = o /\ o.package \in Packages
      /\ Len(job.save) \in {1, 2} /\ o.id \in Nat
  BY <1>2, <1>3, <1>4, NextSave, KnowledgeAssumption
<1>6. PICK next : next = Saved(job)
  OBVIOUS
<1>7. \/ next = Idle /\ Len(job.save) = 1
      \/ /\ Len(job.save) = 2 /\ next \in SaveJobs
         /\ next.package = job.package /\ next.parent = job.parent
         /\ Len(next.save) = 1 /\ next.save[1] = job.save[2]
  BY <1>2, <1>3, <1>6, AfterSaved
<1>8. /\ kjob' = [kjob EXCEPT ![t] = next] /\ byPackage' = [byPackage EXCEPT ![o.package] = o]
      /\ UNCHANGED overlapped
  BY <1>2, <1>5, <1>6 DEF SaveByPackage
<1>9. kjob'[t] = next /\ \A u \in KThreads \ {t} : kjob'[u] = kjob[u]
  BY <1>1, <1>8, KjobAt
<1>10. byPackage'[o.package] = o /\ \A p \in Packages : p # o.package => byPackage'[p] = byPackage[p]
  BY <1>1, <1>5, <1>8 DEF KnowledgeType
<1>11. PICK own : own = job.save[Len(job.save)]
  OBVIOUS
<1>12. /\ own.package = job.package /\ own.parent = job.parent /\ own \in Objects
       /\ Len(job.save) = 2 => /\ o.package = job.parent /\ job.package \in o.children
                               /\ own = job.save[2]
       /\ Len(job.save) = 1 => own = o
  BY <1>2, <1>3, <1>4, <1>11, NextSave DEF KnowledgeInv, SavesSound
<1>13. JobListed(t) /\ InView(o)
  BY <1>2, <1>3, <1>4, HeldInView DEF LineageInv
<1>14. /\ Len(job.save) = 2 /\ job.parent \notin overlapped =>
            /\ byPackage[job.parent] # NoObject /\ byPackage[job.parent].id = o.id
            /\ byPackage[job.parent].children \subseteq o.children
       /\ job.package \notin overlapped =>
            \A x \in Objects :
              InView(x) /\ x.parent = job.package /\ x.package # job.package => x.id < own.id
  BY <1>2, <1>3, <1>4, <1>11, <1>13 DEF JobListed
<1>15. next \notin CompareJobs
  BY <1>7, JobKinds
<1>16. \A x : InView(x)' => InView(x) \/ (Len(job.save) = 2 /\ x = own)
  <2> SUFFICES ASSUME NEW x, InView(x)', ~InView(x)
               PROVE  Len(job.save) = 2 /\ x = own
    OBVIOUS
  <2>1. \A p \in Packages : x # byPackage'[p]
    BY <1>10, <1>13 DEF InView
  <2>2. \A u \in KThreads \ {t} : /\ kjob'[u] \in CompareJobs => x # kjob'[u].loaded
                                  /\ kjob'[u] \in SaveJobs => x # kjob'[u].save[1]
    BY <1>9 DEF InView
  <2>3. next \in SaveJobs /\ x = next.save[1]
    BY <1>9, <1>15, <2>1, <2>2 DEF InView
  <2> QED
    BY <1>7, <1>12, <2>3, JobKinds
<1>17. \A x \in Objects : InView(x)' => Listed(x)'
  <2> SUFFICES ASSUME NEW x \in Objects, InView(x)', NEW q \in Packages, q = x.parent,
                      q \notin overlapped, q # x.package, byPackage'[q] # NoObject,
                      byPackage'[q].id < x.id
               PROVE  x.package \in byPackage'[q].children
    BY <1>8 DEF Listed
  <2>1. CASE q # o.package
    <3>1. InView(x)
      BY <1>12, <1>16, <2>1
    <3>2. byPackage'[q] = byPackage[q] /\ Listed(x)
      BY <1>10, <2>1, <3>1 DEF LineageInv
    <3> QED
      BY <3>2 DEF Listed
  <2>2. CASE q = o.package /\ Len(job.save) = 2
    <3>1. byPackage'[q] = o /\ byPackage[q] # NoObject /\ byPackage[q].id = o.id
          /\ byPackage[q].children \subseteq o.children
      BY <1>10, <1>12, <1>14, <2>2
    <3>2. CASE InView(x)
      <4>1. Listed(x)
        BY <3>2 DEF LineageInv
      <4> QED
        BY <3>1, <4>1 DEF Listed
    <3>3. CASE x = own
      BY <1>12, <2>2, <3>1, <3>3
    <3> QED
      BY <1>16, <3>2, <3>3
  <2>3. CASE q = o.package /\ Len(job.save) = 1
    <3>1. InView(x) /\ o = own /\ byPackage'[q] = o /\ q = job.package
      BY <1>10, <1>12, <1>16, <2>3
    <3>2. x.id < o.id
      BY <1>14, <3>1
    <3>3. x.id \in Nat
      BY <3>1, ViewKnown
    <3> QED
      BY <1>5, <3>1, <3>2, <3>3
  <2> QED
    BY <1>5, <2>1, <2>2, <2>3
<1>18. JobListed(t)'
  <2>1. CASE next \in SaveJobs
    <3>1. /\ Len(next.save) = 1 /\ Len(job.save) = 2 /\ next.save[Len(next.save)] = own
          /\ next.package = job.package
      BY <1>7, <1>12, <2>1, JobKinds
    <3>2. job.package \notin overlapped =>
            \A x \in Objects :
              InView(x)' /\ x.parent = job.package /\ x.package # job.package => x.id < own.id
      BY <1>12, <1>14, <1>16
    <3> QED
      BY <1>8, <1>9, <1>15, <3>1, <3>2 DEF JobListed
  <2>2. CASE next \notin SaveJobs
    BY <1>9, <1>15, <2>2 DEF JobListed
  <2> QED
    BY <2>1, <2>2
<1>19. ASSUME NEW u \in KThreads \ {t} PROVE JobListed(u)'
  <2>1. JobListed(u) /\ kjob'[u] = kjob[u] /\ overlapped' = overlapped
    BY <1>8, <1>9 DEF LineageInv
  <2>2. \A q \in Concerns(kjob[u]) \ overlapped : q \notin Concerns(job)
    BY <1>2 DEF KnowledgeInv, NothingShared
  <2>3. CASE kjob[u] \in CompareJobs
    <3>1. kjob[u].parent \in Packages \ overlapped => byPackage'[kjob[u].parent] = byPackage[kjob[u].parent]
      BY <1>5, <1>10, <2>2, <2>3, JobKinds
    <3>2. kjob[u] \notin SaveJobs
      BY <2>3, JobKinds
    <3> QED
      BY <2>1, <3>1, <3>2 DEF JobListed
  <2>4. CASE kjob[u] \in SaveJobs
    <3>1. Len(kjob[u].save) = 2 /\ kjob[u].parent \notin overlapped =>
            byPackage'[kjob[u].parent] = byPackage[kjob[u].parent]
      <4> SUFFICES ASSUME Len(kjob[u].save) = 2, kjob[u].parent \notin overlapped
                   PROVE  byPackage'[kjob[u].parent] = byPackage[kjob[u].parent]
        OBVIOUS
      <4>1. kjob[u].save[1].package = kjob[u].parent
        BY <2>4 DEF KnowledgeInv, SavesSound
      <4>2. kjob[u].parent \in Packages /\ kjob[u].parent \in Concerns(kjob[u])
        BY <2>4, <4>1, NextSave
      <4> QED
        BY <1>5, <1>10, <2>2, <4>2
    <3>2. kjob[u].package \notin overlapped => kjob[u].package \notin Concerns(job)
      BY <2>2, <2>4, JobKinds DEF SaveJobs
    <3>3. kjob[u].package \notin overlapped => own.parent # kjob[u].package
      BY <1>3, <1>12, <2>4, <3>2, JobKinds DEF SaveJobs
    <3>4. kjob[u] \notin CompareJobs
      BY <2>4, JobKinds
    <3> QED
      BY <1>16, <2>1, <3>1, <3>3, <3>4 DEF JobListed
  <2>5. CASE kjob[u] \notin CompareJobs /\ kjob[u] \notin SaveJobs
    BY <2>1, <2>5 DEF JobListed
  <2> QED
    BY <2>3, <2>4, <2>5
<1> QED
  BY <1>17, <1>18, <1>19 DEF LineageInv

LEMMA LineageStepKeeps ==
  ASSUME KnowledgeInv, LineageInv, KnowledgeCrash \/ \E t \in KThreads : KnowledgeStep(t)
  PROVE  LineageInv'
<1>1. ASSUME NEW t \in KThreads, NEW p \in Packages, NEW parent \in Packages \cup {NoPackage},
             BeginObject(t, p, parent)
      PROVE  LineageInv'
  BY <1>1, BeginKeepsLineage
<1>2. ASSUME NEW t \in KThreads, MakeObject(t) PROVE LineageInv'
  BY <1>2, MakeKeepsLineage
<1>3. ASSUME NEW t \in KThreads, SaveById(t) PROVE LineageInv'
  BY <1>3, SaveByIdKeepsLineage
<1>4. ASSUME NEW t \in KThreads, SaveByPackage(t) PROVE LineageInv'
  BY <1>4, SaveByPackageKeepsLineage
<1>5. CASE KnowledgeCrash \/ \E t \in KThreads : RefuseObject(t) \/ ObjectSaveFails(t)
  BY <1>5, EndsKnowledge, EndingKeepsLineage
<1> QED
  BY <1>1, <1>2, <1>3, <1>4, <1>5 DEF KnowledgeStep
-----------------------------------------------------------------------------
(* The path of n + 1 packages at most from a package up.                    *)
IsWalk(walk, p, N) ==
  walk = [n \in 0..N |-> IF n = 0 THEN <<p>> ELSE Further(walk[n - 1], n)]

(* What holds of 0, and of each number's successor, holds.                  *)
LEMMA SetInduction ==
  ASSUME NEW S \in SUBSET Nat, 0 \in S, \A n \in S : n + 1 \in S
  PROVE  S = Nat
<1> SUFFICES ASSUME Nat \ S # {} PROVE FALSE
  OBVIOUS
<1>1. IsWellFoundedOn(OpToRel(<, Nat), Nat)
  BY NatLessThanWellFounded
<1>2. PICK n \in Nat \ S : \A m \in Nat \ S : ~(<<m, n>> \in OpToRel(<, Nat))
  BY <1>1, WFMin
<1>3. \A m \in Nat \ S : ~(m < n)
  BY <1>2 DEF OpToRel
<1>4. n \in Nat /\ n \notin S
  BY Zenon, <1>2
<1>5. n # 0
  BY Zenon, <1>4
<1>6. n - 1 \in Nat /\ n - 1 < n /\ (n - 1) + 1 = n
  BY <1>4, <1>5
<1>7. n - 1 \in S
  BY <1>3, <1>6
<1> QED
  BY <1>4, <1>6, <1>7

LEMMA WalkExists ==
  ASSUME NEW p, NEW N \in Nat
  PROVE  \E walk : IsWalk(walk, p, N)
<1> DEFINE S == {n \in Nat : \E walk : IsWalk(walk, p, n)}
<1>1. 0 \in S
  <2>1. PICK walk : walk = [n \in 0..0 |-> <<p>>]
    OBVIOUS
  <2>2. IsWalk(walk, p, 0)
    BY <2>1 DEF IsWalk
  <2> QED
    BY <2>2
<1>2. ASSUME NEW n \in S PROVE n + 1 \in S
  <2>1. PICK shorter : IsWalk(shorter, p, n)
    OBVIOUS
  <2>2. PICK last : last = Further(shorter[n], n + 1)
    OBVIOUS
  <2>3. PICK walk : walk = [m \in 0..(n + 1) |-> IF m = n + 1 THEN last ELSE shorter[m]]
    OBVIOUS
  <2>4. \A m \in 0..n : walk[m] = shorter[m]
    BY <2>3
  <2>5. \A m \in 0..n : shorter[m] = IF m = 0 THEN <<p>> ELSE Further(shorter[m - 1], m)
    BY <2>1 DEF IsWalk
  <2>6. ASSUME NEW m \in 0..(n + 1)
        PROVE  walk[m] = IF m = 0 THEN <<p>> ELSE Further(walk[m - 1], m)
    <3>1. CASE m = n + 1
      <4>1. walk[m] = last /\ m - 1 = n /\ n \in 0..n /\ m # 0
        BY <2>3, <3>1
      <4>2. walk[m - 1] = shorter[n]
        BY <2>4, <4>1
      <4> QED
        BY <2>2, <3>1, <4>1, <4>2
    <3>2. CASE m \in 0..n
      <4>1. m # 0 => m - 1 \in 0..n
        BY <3>2
      <4> QED
        BY <2>4, <2>5, <3>2, <4>1
    <3> QED
      BY <3>1, <3>2
  <2>7. walk = [m \in 0..(n + 1) |-> walk[m]]
    BY <2>3
  <2>8. walk = [m \in 0..(n + 1) |-> IF m = 0 THEN <<p>> ELSE Further(walk[m - 1], m)]
    BY <2>6, <2>7
  <2> QED
    BY <2>8 DEF IsWalk
<1> QED
  BY <1>1, <1>2, SetInduction

(* A walk starts with the package and its parent, if that is another one.   *)
LEMMA WalkStarts ==
  ASSUME NEW p \in Packages, NEW N \in Nat, NEW walk, IsWalk(walk, p, N),
         \A q \in Packages : ParentOf(q) \in Packages \cup {NoPackage}, N > 0
  PROVE  /\ walk[N] \in Seq(Packages) /\ Len(walk[N]) > 0
         /\ Len(walk[N]) > 1 => walk[N][2] = ParentOf(p) /\ ParentOf(p) \notin {NoPackage, p}
<1> DEFINE Starts(path) ==
             /\ path \in Seq(Packages) /\ Len(path) > 0 /\ path[1] = p
             /\ Len(path) > 1 => path[2] = ParentOf(p) /\ ParentOf(p) \notin {NoPackage, p}
           S == {n \in Nat : n <= N => Starts(walk[n])}
<1>1. \A n \in 0..N : walk[n] = IF n = 0 THEN <<p>> ELSE Further(walk[n - 1], n)
  BY DEF IsWalk
<1>2. 0 \in S
  <2>1. PICK first : first = <<p>>
    OBVIOUS
  <2>2. first \in Seq(Packages) /\ Len(first) = 1 /\ first[1] = p
    BY <2>1
  <2>3. walk[0] = first
    BY <1>1, <2>1
  <2> QED
    BY <2>2, <2>3
<1>3. ASSUME NEW path, Starts(path), NEW n \in Nat
      PROVE  Starts(Further(path, n))
  <2>1. PICK next : next = ParentOf(path[Len(path)])
    OBVIOUS
  <2>2. CASE Further(path, n) = path
    BY <1>3, <2>2
  <2>3. CASE /\ Further(path, n) = Append(path, next) /\ next # NoPackage
             /\ \A i \in DOMAIN path : path[i] # next
    <3>1. path[Len(path)] \in Packages
      BY <1>3
    <3>2. next \in Packages
      BY <2>1, <2>3, <3>1
    <3>3. PICK longer : longer = Append(path, next)
      OBVIOUS
    <3>4. /\ longer \in Seq(Packages) /\ Len(longer) = Len(path) + 1 /\ Len(path) \in Nat
          /\ longer[1] = p /\ longer[Len(path) + 1] = next
          /\ Len(path) > 1 => longer[2] = path[2]
      BY <1>3, <3>2, <3>3
    <3>5. Len(path) = 1 => next = ParentOf(p) /\ next # p
      BY <1>3, <2>1, <2>3
    <3>6. Len(path) > 1 => path[2] = ParentOf(p) /\ ParentOf(p) \notin {NoPackage, p}
      BY <1>3
    <3>7. longer[2] = ParentOf(p) /\ ParentOf(p) \notin {NoPackage, p}
      <4>1. CASE Len(path) = 1
        BY <2>3, <3>4, <3>5, <4>1
      <4>2. CASE Len(path) > 1
        BY <3>4, <3>6, <4>2
      <4>3. Len(path) \in Nat /\ Len(path) > 0
        BY <1>3
      <4>4. Len(path) = 1 \/ Len(path) > 1
        <5>1. PICK k \in Nat : k = Len(path)
          BY Zenon, <4>3
        <5>2. k > 0
          BY Zenon, <4>3, <5>1
        <5>3. k = 1 \/ k > 1
          BY <5>2
        <5> QED
          BY Zenon, <5>1, <5>3
      <4> QED
        BY Zenon, <4>1, <4>2, <4>4
    <3>8. Starts(longer)
      BY <3>4, <3>7
    <3> QED
      BY <2>3, <3>3, <3>8
  <2> QED
    BY <2>1, <2>2, <2>3 DEF Further
<1> HIDE DEF Starts
<1>4. ASSUME NEW n \in S PROVE n + 1 \in S
  <2> SUFFICES ASSUME n + 1 <= N PROVE Starts(walk[n + 1])
    OBVIOUS
  <2>1. n \in Nat /\ n + 1 \in 0..N /\ n + 1 # 0 /\ (n + 1) - 1 = n /\ n <= N
    OBVIOUS
  <2>2. Starts(walk[n])
    BY <2>1
  <2>3. walk[n + 1] = Further(walk[n], n + 1)
    BY <1>1, <2>1
  <2> QED
    BY <1>3, <2>1, <2>2, <2>3
<1>5. S = Nat
  <2> HIDE DEF S
  <2>1. S \in SUBSET Nat
    BY DEF S
  <2> QED
    BY <1>2, <1>4, <2>1, SetInduction
<1>6. Starts(walk[N])
  BY <1>5
<1> QED
  BY <1>6 DEF Starts

(* The first ancestor is the stored parent.                                 *)
LEMMA FirstAncestor ==
  ASSUME KnowledgeInv, NEW p \in Packages, Ancestors(p) # << >>
  PROVE  Head(Ancestors(p)) = ParentOf(p) /\ ParentOf(p) \in Packages \ {p}
<1>1. \A q \in Packages : ParentOf(q) \in Packages \cup {NoPackage}
  BY DEF KnowledgeInv, KnowledgeType, ParentOf, Objects
<1>2. Cardinality(Packages) \in Nat /\ Cardinality(Packages) > 0
  <2>1. Cardinality(Packages) \in Nat /\ Cardinality(Packages) # 0
    BY KnowledgeAssumption, FS_CardinalityType, FS_EmptySet
  <2> QED
    BY <2>1
<1>3. PICK N \in Nat : N = Cardinality(Packages) /\ N > 0
  BY <1>2
<1> DEFINE walk == CHOOSE w : w = [n \in 0..N |-> IF n = 0 THEN <<p>> ELSE Further(w[n - 1], n)]
<1>4. Ancestors(p) = Tail(walk[N])
  BY <1>3 DEF Ancestors
<1>5. IsWalk(walk, p, N)
  BY WalkExists DEF IsWalk
<1> HIDE DEF walk
<1>6. PICK path : path = walk[N]
  OBVIOUS
<1>7. /\ path \in Seq(Packages) /\ Len(path) > 0
      /\ Len(path) > 1 => path[2] = ParentOf(p) /\ ParentOf(p) \notin {NoPackage, p}
  BY <1>1, <1>3, <1>5, <1>6, WalkStarts
<1>8. Len(path) > 1 /\ Head(Tail(path)) = path[2]
  BY <1>4, <1>6, <1>7
<1> QED
  BY <1>1, <1>4, <1>6, <1>7, <1>8

LEMMA SpecKnowledgeInv == Spec => [](KnowledgeInv /\ LineageInv)
<1>1. Init => KnowledgeInv /\ LineageInv
  <2> SUFFICES ASSUME KnowledgeInit PROVE KnowledgeInv /\ LineageInv
    BY DEF Init
  <2>1. \A t \in KThreads : kjob[t] \notin CompareJobs /\ kjob[t] \notin SaveJobs
    BY JobKinds DEF KnowledgeInit
  <2>2. \A x : ~InView(x)
    BY <2>1 DEF KnowledgeInit, InView
  <2> QED
    BY <2>1, <2>2, KnowledgeInitInv DEF LineageInv, JobListed
<1>2. KnowledgeInv /\ LineageInv /\ [Next]_recordVars => KnowledgeInv' /\ LineageInv'
  <2> SUFFICES ASSUME KnowledgeInv, LineageInv, [Next]_recordVars
               PROVE  KnowledgeInv' /\ LineageInv'
    OBVIOUS
  <2>1. CASE UNCHANGED knowledgeVars
    <3>1. UNCHANGED <<byId, byPackage, made, kjob, overlapped, cut>>
      BY <2>1 DEF knowledgeVars
    <3>2. \A t \in KThreads : kjob'[t] = kjob[t] \/ kjob'[t] = Idle
      BY <3>1
    <3>3. kjob' = [t \in KThreads |-> kjob'[t]]
      BY <3>1 DEF KnowledgeInv, KnowledgeType
    <3> QED
      BY <3>1, <3>2, <3>3, EndingKeepsKnowledge, EndingKeepsLineage
  <2>2. CASE KnowledgeCrash \/ \E t \in KThreads : KnowledgeStep(t)
    BY <2>2, KnowledgeStepKeeps, LineageStepKeeps
  <2> QED
    BY <2>1, <2>2 DEF Next, recordVars
<1> QED
  BY <1>1, <1>2, PTL DEF Spec

(* An object that get_by_package finds (knowledge_object_service.py) is     *)
(* found under its id too, and it is the same object unless a registration  *)
(* of it overlapped another or did not end.                                 *)
THEOREM KeysStayTogether == Spec => []KeysAgree
<1>1. KnowledgeInv => KeysAgree
  <2> SUFFICES ASSUME KnowledgeInv, NEW p \in Packages, byPackage[p] # NoObject
               PROVE  /\ byId[byPackage[p].id] # NoObject
                      /\ p \notin InProgress \cup overlapped \cup cut =>
                           byId[byPackage[p].id] = byPackage[p]
    BY DEF KeysAgree
  <2>1. \A t \in KThreads : kjob[t].at = "save_package" /\ kjob[t].save[1].package = p =>
          p \in Concerns(kjob[t])
    BY KindOf, NextSave DEF KnowledgeInv
  <2> QED
    BY <2>1 DEF KnowledgeInv, FilesAgree, InProgress
<1> QED
  BY <1>1, SpecKnowledgeInv, PTL

(* A package is among the descendants that lineage reports of its first     *)
(* ancestor (knowledge_object_service.py), when the object of that ancestor *)
(* is the older one and no registration that concerns the ancestor is in    *)
(* progress or has overlapped another.                                      *)
THEOREM LineagesAgree == Spec => []LineageIsMutual
<1>1. KnowledgeInv /\ LineageInv => LineageIsMutual
  <2> SUFFICES ASSUME KnowledgeInv, LineageInv, NEW p \in Packages, Ancestors(p) # << >>,
                      NEW parent, parent = Head(Ancestors(p)), byPackage[parent] # NoObject,
                      byPackage[parent].id < byPackage[p].id, parent \notin overlapped
               PROVE  p \in Descendants(parent)
    BY DEF LineageIsMutual
  <2>1. parent = ParentOf(p) /\ parent \in Packages \ {p}
    BY FirstAncestor
  <2>2. byPackage[p] # NoObject /\ byPackage[p].parent = parent
    BY <2>1, KnowledgeAssumption DEF ParentOf
  <2>3. PICK x : x = byPackage[p]
    OBVIOUS
  <2>4. InView(x)
    BY <2>2, <2>3 DEF InView
  <2>5. x.package = p /\ Listed(x)
    BY <2>2, <2>3, <2>4, ViewKnown DEF KnowledgeInv, FilesAgree, LineageInv
  <2> QED
    BY <2>1, <2>2, <2>3, <2>5 DEF Listed, Descendants
<1> QED
  BY <1>1, SpecKnowledgeInv, PTL
=============================================================================
